---- MODULE Spec2Model ----
(***************************************************************************)
(* The PDF reader of hira_anticancer_mcp_server (reader.py): page-range    *)
(* parsing, table-of-contents recovery, topic location, fuzzy page         *)
(* verification, keyword search and the hybrid text/image render loop of   *)
(* read_pdf.                                                               *)
(*                                                                         *)
(* A Python str is a sequence of one-character strings.  A Hangul syllable *)
(* is written as the token "U" followed by its code point ("UC554"), which *)
(* is one character of the string it stands in.                            *)
(***************************************************************************)
EXTENDS Integers, Sequences, FiniteSets, TLC

VARIABLES
    pc,                 \* position of the call being modelled
    doc,                \* the PDF file at filepath: [n |-> page count, pg |-> pages]
    pages,              \* read_pdf(pages=...) / _parse_page_range(pages_str, ...)
    section,            \* read_pdf(section=...)
    cancer_type,        \* read_pdf(cancer_type=...)
    search,             \* read_pdf(search=...)
    text_only,          \* read_pdf(text_only=...)
    total_pages,        \* len(doc) / the parameter total
    page_indices,       \* the resolved zero-based page indices
    toc,                \* the entry list returned by _parse_toc
    toc_page_idx,       \* the TOC page index returned by _parse_toc
    range_label,        \* read_pdf: range_label ("" for None)
    truncated,          \* read_pdf: truncated
    results,            \* read_pdf: results, the content blocks
    image_page_count,   \* read_pdf: image_page_count
    text_buffer,        \* read_pdf: text_buffer
    cursor,             \* read_pdf: how many of page_indices the loop has taken
    cancer_name,        \* _verify_page_with_fuzzy(cancer_name=...)
    expected_idx,       \* _verify_page_with_fuzzy(expected_idx=...)
    verified,           \* the indices returned by successive verifications
    toc_offset,         \* the offset returned by _calc_toc_offset
    _toc_offset_cache,  \* the module-level dict _toc_offset_cache
    handles,            \* read_pdf: which of doc and pdf_plumber are open
    callers             \* the concurrent calls of _calc_toc_offset

\* A str parameter that is None is the empty str: the code only tests its truth.
queryVars == <<pages, section, cancer_type, search, text_only>>

tocVars == <<toc, toc_page_idx>>

renderVars == <<range_label, truncated, results, image_page_count, text_buffer, cursor>>

verifyVars == <<cancer_name, expected_idx, verified>>

vars == <<pc, doc, queryVars, total_pages, page_indices, tocVars, renderVars,
          verifyVars, toc_offset, _toc_offset_cache, handles, callers>>

EmptyCache == [path \in {} |-> 0]

\* the values of the variables a specification does not use
QueryIdle ==
    /\ pages = <<>> /\ section = <<>> /\ cancer_type = <<>> /\ search = <<>>
    /\ text_only = FALSE

TocIdle == toc = <<>> /\ toc_page_idx = -1

RenderIdle ==
    /\ range_label = <<>> /\ truncated = FALSE /\ results = <<>>
    /\ image_page_count = 0 /\ text_buffer = <<>> /\ cursor = 0

VerifyIdle == cancer_name = <<>> /\ expected_idx = 0 /\ verified = <<>>

\* no offset returned yet
OffsetIdle == toc_offset = 0

\* no handle is open
HandlesIdle == handles = {}

\* no concurrent call of _calc_toc_offset
CallersIdle == callers = <<>>

(***************************************************************************)
(* Python str operations                                                   *)
(***************************************************************************)
Min(a, b) == IF a <= b THEN a ELSE b

Max(a, b) == IF a >= b THEN a ELSE b

Whitespace == {" ", "\n", "\t"}

Digits == <<"0", "1", "2", "3", "4", "5", "6", "7", "8", "9">>

IsDigit(c) == c \in {"0", "1", "2", "3", "4", "5", "6", "7", "8", "9"}

DigitVal(c) == (CHOOSE d \in 1..Len(Digits) : Digits[d] = c) - 1

\* s[a:b] for 0 <= a, b (Python slice, zero-based, end exclusive)
Slice(s, a, b) == SubSeq(s, a + 1, Min(b, Len(s)))

\* sub in s
Contains(sub, s) ==
    \/ sub = <<>>
    \/ \E i \in 1..(Len(s) - Len(sub) + 1) :
           s[i] = sub[1] /\ SubSeq(s, i, i + Len(sub) - 1) = sub

\* s.index(sub), for sub in s: the lowest offset at which sub occurs
IndexOf(sub, s) ==
    CHOOSE i \in 0..(Len(s) - Len(sub)) :
        /\ SubSeq(s, i + 1, i + Len(sub)) = sub
        /\ \A j \in 0..(i - 1) : SubSeq(s, j + 1, j + Len(sub)) # sub

UpperCase == <<"A", "B", "C", "D", "E", "F", "G", "H", "I", "J", "K", "L", "M",
               "N", "O", "P", "Q", "R", "S", "T", "U", "V", "W", "X", "Y", "Z">>

LowerCase == <<"a", "b", "c", "d", "e", "f", "g", "h", "i", "j", "k", "l", "m",
               "n", "o", "p", "q", "r", "s", "t", "u", "v", "w", "x", "y", "z">>

LowerChar(c) ==
    IF \E k \in 1..26 : UpperCase[k] = c
    THEN LowerCase[CHOOSE k \in 1..26 : UpperCase[k] = c]
    ELSE c

\* s.lower()
Lower(s) == [i \in 1..Len(s) |-> LowerChar(s[i])]

\* len(c) of one character c of a str
CharLen(c) == 1

RECURSIVE DecimalString(_)
\* str(n) for n >= 0
DecimalString(n) ==
    IF n < 10 THEN <<Digits[n + 1]>>
    ELSE DecimalString(n \div 10) \o <<Digits[(n % 10) + 1]>>

\* s.strip()
Strip(s) ==
    LET keep == {i \in 1..Len(s) : s[i] \notin Whitespace}
    IN  IF keep = {} THEN <<>>
        ELSE SubSeq(s, CHOOSE i \in keep : \A j \in keep : i <= j,
                       CHOOSE i \in keep : \A j \in keep : i >= j)

RECURSIVE Split(_, _)
\* s.split(sep) for a one-character sep
Split(s, sep) ==
    LET at == {i \in 1..Len(s) : s[i] = sep}
    IN  IF at = {} THEN <<s>>
        ELSE LET i == CHOOSE x \in at : \A y \in at : x <= y
             IN  <<SubSeq(s, 1, i - 1)>> \o Split(SubSeq(s, i + 1, Len(s)), sep)

\* s.split(sep, 1)
Split1(s, sep) ==
    LET at == {i \in 1..Len(s) : s[i] = sep}
    IN  IF at = {} THEN <<s>>
        ELSE LET i == CHOOSE x \in at : \A y \in at : x <= y
             IN  <<SubSeq(s, 1, i - 1), SubSeq(s, i + 1, Len(s))>>

RECURSIVE DecimalValue(_)
DecimalValue(s) ==
    IF s = <<>> THEN 0
    ELSE 10 * DecimalValue(SubSeq(s, 1, Len(s) - 1)) + DigitVal(s[Len(s)])

AllDigits(s) == s # <<>> /\ \A i \in 1..Len(s) : IsDigit(s[i])

\* int(s) accepts surrounding whitespace and one leading sign; anything else
\* raises ValueError
IntOk(s) ==
    LET t == Strip(s)
    IN  \/ AllDigits(t)
        \/ t # <<>> /\ t[1] = "-" /\ AllDigits(Tail(t))

IntVal(s) ==
    LET t == Strip(s)
    IN  IF t[1] = "-" THEN 0 - DecimalValue(Tail(t)) ELSE DecimalValue(t)

\* list(range(a, b))
RangeList(a, b) == [i \in 1..Max(b - a, 0) |-> a + i - 1]

SeqToSet(s) == {s[i] : i \in 1..Len(s)}

\* the i-th (from 1) smallest element of a set of numbers
Nth(S, i) == CHOOSE x \in S : Cardinality({y \in S : y < x}) = i - 1

RECURSIVE SortedList(_)
\* sorted(S) of a set of integers
SortedList(S) ==
    IF S = {} THEN <<>>
    ELSE LET m == CHOOSE x \in S : \A y \in S : x <= y
         IN  <<m>> \o SortedList(S \ {m})

(***************************************************************************)
(* The PDF file.  A page is what the two PDF libraries report of it:       *)
(*   text    the str returned by extract_text() (None is the empty str)    *)
(*   extract "ok", or "raise" when extract_text() raises                   *)
(*   tables  "none" | "some" | "error": find_tables() finds none, finds    *)
(*           one or more, or raises                                        *)
(*   render  "ok" | "fail": get_pixmap()/tobytes() succeeds or raises      *)
(* pg maps the indices of the pages that are not blank to their pages.     *)
(***************************************************************************)
BlankPage == [text |-> <<>>, extract |-> "ok", tables |-> "none", render |-> "ok"]

TextPage(t) == [text |-> t, extract |-> "ok", tables |-> "none", render |-> "ok"]

NoDoc == [n |-> 0, pg |-> <<>>]

PageAt(d, i) == IF i \in DOMAIN d.pg THEN d.pg[i] ELSE BlankPage

\* pdf.pages[i].extract_text() or ""
PageText(d, i) == PageAt(d, i).text

(***************************************************************************)
(* Python re: a pattern is a sequence of elements, each a character class  *)
(* repeated lo..hi times (hi = -1: unbounded), greedy or lazy.  Matching   *)
(* backtracks in the order re does.                                        *)
(***************************************************************************)
DotLeader == "U00B7"

BoxGlyph == "U25A1"

ClassMatch(cls, c) ==
    CASE cls = "digit" -> IsDigit(c)
      [] cls = "space" -> c \in Whitespace
      [] cls = "any"   -> c # "\n"
      [] OTHER         -> c = cls

Elem(cls, lo, hi, lazy) == [cls |-> cls, lo |-> lo, hi |-> hi, lazy |-> lazy]

RECURSIVE RunLen(_, _, _)
\* the longest run of cls characters of s starting at offset pos
RunLen(cls, s, pos) ==
    IF pos < Len(s) /\ ClassMatch(cls, s[pos + 1]) THEN 1 + RunLen(cls, s, pos + 1)
    ELSE 0

NoMatch == [ok |-> FALSE, ends |-> <<>>]

RECURSIVE MatchFrom(_, _, _, _)
RECURSIVE TryCounts(_, _, _, _, _, _)
RECURSIVE Tried(_, _, _, _, _, _, _)
\* tries the repeat counts n, n + step, ... up to last, in that order
TryCounts(pat, j, s, pos, n, last) ==
    Tried(pat, j, s, pos, n, last, MatchFrom(pat, j + 1, s, pos + n))

\* r: the match of the rest of the pattern after n repeats
Tried(pat, j, s, pos, n, last, r) ==
    IF r.ok THEN [ok |-> TRUE, ends |-> <<pos + n>> \o r.ends]
    ELSE IF n = last THEN NoMatch
    ELSE TryCounts(pat, j, s, pos, IF pat[j].lazy THEN n + 1 ELSE n - 1, last)

\* elements j.. of pat matched at offset pos of s: the end offset of each
MatchFrom(pat, j, s, pos) ==
    IF j > Len(pat) THEN [ok |-> TRUE, ends |-> <<>>]
    ELSE LET e == pat[j]
         IN  IF e.cls = "end"
             THEN IF pos = Len(s) THEN TryCounts(pat, j, s, pos, 0, 0) ELSE NoMatch
             ELSE LET run == RunLen(e.cls, s, pos)
                      top == IF e.hi >= 0 THEN Min(run, e.hi) ELSE run
                  IN  IF top < e.lo THEN NoMatch
                      ELSE IF e.lazy THEN TryCounts(pat, j, s, pos, e.lo, top)
                      ELSE TryCounts(pat, j, s, pos, top, e.lo)

\* re.match(pat, s)
ReMatch(pat, s) == MatchFrom(pat, 1, s, 0)

RECURSIVE SearchFrom(_, _, _)
RECURSIVE SearchedAt(_, _, _, _)
\* re.search(pat, s) from offset pos on: [ok, start, ends]
SearchFrom(pat, s, pos) ==
    IF pos > Len(s) THEN [ok |-> FALSE, start |-> 0, ends |-> <<>>]
    ELSE SearchedAt(pat, s, pos, MatchFrom(pat, 1, s, pos))

\* r: the match at offset pos
SearchedAt(pat, s, pos, r) ==
    IF r.ok THEN [ok |-> TRUE, start |-> pos, ends |-> r.ends]
    ELSE SearchFrom(pat, s, pos + 1)

RECURSIVE FindIter(_, _, _)
RECURSIVE Found(_, _, _)
\* list(pat.finditer(s)) from offset pos on (no pattern here matches empty)
FindIter(pat, s, pos) == Found(pat, s, SearchFrom(pat, s, pos))

\* r: the next match
Found(pat, s, r) ==
    IF ~r.ok THEN <<>>
    ELSE <<r>> \o FindIter(pat, s, r.ends[Len(r.ends)])

\* the text matched by element j of a match m of s
Group(s, m, j) ==
    Slice(s, IF j = 1 THEN m.start ELSE m.ends[j - 1], m.ends[j])

RECURSIVE CollapseSpaces(_)
\* re.sub(r"\s+", " ", s)
CollapseSpaces(s) ==
    IF s = <<>> THEN <<>>
    ELSE IF s[1] \in Whitespace
         THEN <<" ">> \o CollapseSpaces(SubSeq(s, 1 + RunLen("space", s, 0), Len(s)))
         ELSE <<s[1]>> \o CollapseSpaces(Tail(s))

StartsWith(s, prefix) ==
    Len(s) >= Len(prefix) /\ SubSeq(s, 1, Len(prefix)) = prefix

(***************************************************************************)
(* _parse_toc_entries_from_line and _parse_toc                             *)
(***************************************************************************)
AnchorGeneral == <<"UC77C", "UBC18", "UC6D0", "UCE59">>

AnchorByCancer == <<"UC554", "UC885", "UBCC4">>

PatientPrefix == <<"UC554", "UD658", "UC790">>

\* _TOC_ENTRY_START = (\d+(?:-\d+)?)\.\s, with and without the optional part
EntryStartLong ==
    <<Elem("digit", 1, -1, FALSE), Elem("-", 1, 1, FALSE),
      Elem("digit", 1, -1, FALSE), Elem(".", 1, 1, FALSE),
      Elem("space", 1, 1, FALSE)>>

EntryStartShort ==
    <<Elem("digit", 1, -1, FALSE), Elem(".", 1, 1, FALSE),
      Elem("space", 1, 1, FALSE)>>

\* _TOC_SECTION_PATTERN
SectionPattern ==
    <<Elem(BoxGlyph, 1, 1, FALSE), Elem("space", 0, -1, FALSE),
      Elem("any", 1, -1, TRUE), Elem(DotLeader, 1, -1, FALSE),
      Elem("space", 0, -1, FALSE), Elem("digit", 1, -1, FALSE)>>

\* (.+?) dots (\d+)
DotPattern ==
    <<Elem("any", 1, -1, TRUE), Elem(DotLeader, 1, -1, FALSE),
      Elem("digit", 1, -1, FALSE)>>

\* \s(\d+)\s*$
TrailingNumberPattern ==
    <<Elem("space", 1, 1, FALSE), Elem("digit", 1, -1, FALSE),
      Elem("space", 0, -1, FALSE), Elem("end", 0, 0, FALSE)>>

RECURSIVE EntryStartsAt(_, _, _, _)
RECURSIVE EntryStarts(_, _)
\* list(_TOC_ENTRY_START.finditer(s)) from offset pos: [start, end, num]
EntryStarts(s, pos) ==
    IF pos > Len(s) THEN <<>>
    ELSE EntryStartsAt(s, pos, MatchFrom(EntryStartLong, 1, s, pos),
                       MatchFrom(EntryStartShort, 1, s, pos))

\* a and b: the matches of the two alternatives at offset pos
EntryStartsAt(s, pos, a, b) ==
    IF a.ok
    THEN <<[start |-> pos, end |-> a.ends[5], num |-> Slice(s, pos, a.ends[3])]>>
             \o EntryStarts(s, a.ends[5])
    ELSE IF b.ok
    THEN <<[start |-> pos, end |-> b.ends[3], num |-> Slice(s, pos, b.ends[1])]>>
             \o EntryStarts(s, b.ends[3])
    ELSE EntryStarts(s, pos + 1)

\* name and page as the dot-leader match gives them, or else the match of
\* the trailing number
Parsed(segment, dot_match, num_match) ==
    IF dot_match.ok
    THEN [ok |-> TRUE,
          name |-> Strip(Slice(segment, 0, dot_match.ends[1])),
          page |-> DecimalValue(Slice(segment, dot_match.ends[2], dot_match.ends[3]))]
    ELSE IF num_match.ok
    THEN [ok |-> TRUE,
          name |-> Strip(Slice(segment, 0, num_match.start)),
          page |-> DecimalValue(Slice(segment, num_match.ends[1], num_match.ends[2]))]
    ELSE [ok |-> FALSE, name |-> <<>>, page |-> 0]

\* if name and page > 0: entries.append(...)
EntryIf(num, name, parsed) ==
    IF parsed.ok /\ name # <<>> /\ parsed.page > 0
    THEN <<[num |-> num, name |-> name, page |-> parsed.page]>>
    ELSE <<>>

Entry(num, parsed) == EntryIf(num, CollapseSpaces(parsed.name), parsed)

\* the entry of one segment, or none (a sequence of zero or one entries)
SegmentEntry(num, segment) ==
    Entry(num, Parsed(segment, ReMatch(DotPattern, segment),
                      SearchFrom(TrailingNumberPattern, segment, 0)))

RECURSIVE SegmentEntries(_, _, _)
SegmentEntries(line, starts, i) ==
    IF i > Len(starts) THEN <<>>
    ELSE LET text_start == starts[i].end
             text_end   == IF i + 1 <= Len(starts) THEN starts[i + 1].start ELSE Len(line)
             segment    == Strip(Slice(line, text_start, text_end))
         IN  SegmentEntry(starts[i].num, segment) \o SegmentEntries(line, starts, i + 1)

_parse_toc_entries_from_line(line) ==
    SegmentEntries(line, EntryStarts(line, 0), 1)

RECURSIVE LineEntries(_)
\* the loop over text.split("\n"): toc_entries.extend(entries) line by line
LineEntries(lines) ==
    IF lines = <<>> THEN <<>>
    ELSE LET line == Strip(Head(lines))
         IN  (IF line = <<>> \/ StartsWith(line, <<BoxGlyph>>)
                     \/ StartsWith(line, PatientPrefix)
              THEN <<>>
              ELSE _parse_toc_entries_from_line(line)) \o LineEntries(Tail(lines))

\* name = m.group(1).strip(), page = int(m.group(2)) of each match
SectionsOf(text, ms) ==
    [i \in 1..Len(ms) |->
        [name |-> Strip(Group(text, ms[i], 3)),
         page |-> DecimalValue(Group(text, ms[i], 6))]]

\* section_entries of a contents page, in the order finditer yields them
SectionEntries(text) == SectionsOf(text, FindIter(SectionPattern, text, 0))

TocCountMutant(d, i) ==
    IF Contains(AnchorGeneral, PageText(d, i))
    THEN Len(EntryStarts(PageText(d, i), 0))
    ELSE 0

\* count of line-item starts on page i, 0 when an anchor phrase is missing
TocCount(d, i) ==
    IF Contains(AnchorGeneral, PageText(d, i)) /\ Contains(AnchorByCancer, PageText(d, i))
    THEN Len(EntryStarts(PageText(d, i), 0))
    ELSE 0

RECURSIVE BestPage(_, _, _, _)
\* the scan of pages 25..min(50, len)-1: (best_page_idx, best_count) so far
BestPage(d, i, best_page_idx, best_count) ==
    IF i >= Min(50, d.n) THEN best_page_idx
    ELSE IF TocCount(d, i) > best_count
         THEN BestPage(d, i + 1, i, TocCount(d, i))
         ELSE BestPage(d, i + 1, best_page_idx, best_count)

RECURSIVE InsertByPageMutant(_, _)
\* an unstable sort: an entry goes before the entries of its own page
InsertByPageMutant(sorted, e) ==
    IF sorted = <<>> THEN <<e>>
    ELSE IF Head(sorted).page < e.page
         THEN <<Head(sorted)>> \o InsertByPageMutant(Tail(sorted), e)
         ELSE <<e>> \o sorted

RECURSIVE InsertByPage(_, _)
\* insertion after every element whose page is not greater: list.sort is stable
InsertByPage(sorted, e) ==
    IF sorted = <<>> THEN <<e>>
    ELSE IF Head(sorted).page <= e.page
         THEN <<Head(sorted)>> \o InsertByPage(Tail(sorted), e)
         ELSE <<e>> \o sorted

RECURSIVE SortByPage(_, _)
\* toc_entries.sort(key=lambda e: e["page"])
SortByPage(entries, sorted) ==
    IF entries = <<>> THEN sorted
    ELSE SortByPage(Tail(entries), InsertByPage(sorted, Head(entries)))

RECURSIVE Unique(_, _, _)
\* the seen/unique loop: the first entry of each page is kept
Unique(entries, seen, unique) ==
    IF entries = <<>> THEN unique
    ELSE IF Head(entries).page \notin seen
         THEN Unique(Tail(entries), seen \cup {Head(entries).page}, Append(unique, Head(entries)))
         ELSE Unique(Tail(entries), seen, unique)

RECURSIVE NextSectionPage(_, _)
\* the loop over section_entries: the first with a greater page, 0 for None
NextSectionPage(section_entries, page) ==
    IF section_entries = <<>> THEN 0
    ELSE IF Head(section_entries).page > page THEN Head(section_entries).page
         ELSE NextSectionPage(Tail(section_entries), page)

\* entry["end_page"] of entry i
EndPage(entries, section_entries, i) ==
    IF i + 1 <= Len(entries) THEN entries[i + 1].page - 1
    ELSE LET next_section_page == NextSectionPage(section_entries, entries[i].page)
         IN  IF next_section_page # 0 THEN next_section_page - 1
             ELSE entries[i].page + 10

WithEndPages(entries, section_entries) ==
    [i \in 1..Len(entries) |->
        [num |-> entries[i].num, name |-> entries[i].name, page |-> entries[i].page,
         end_page |-> EndPage(entries, section_entries, i)]]

\* toc_entries as collected from the contents page, in reading order
RawTocEntries(d, best_page_idx) ==
    IF best_page_idx >= 0 THEN LineEntries(Split(PageText(d, best_page_idx), "\n"))
    ELSE <<>>

RawSectionEntries(d, best_page_idx) ==
    IF best_page_idx >= 0 THEN SectionEntries(PageText(d, best_page_idx)) ELSE <<>>

\* the entries and the index returned for the contents page found
ParsedAt(d, best_page_idx) ==
    [entries |->
         WithEndPages(Unique(SortByPage(RawTocEntries(d, best_page_idx), <<>>), {}, <<>>),
                      RawSectionEntries(d, best_page_idx)),
     idx |-> best_page_idx]

_parse_toc(d) == ParsedAt(d, BestPage(d, 25, -1, 0))

(***************************************************************************)
(* _verify_page_with_fuzzy                                                 *)
(***************************************************************************)
RECURSIVE Replace(_, _, _)
\* s.replace(a, b) for one-character a and b
Replace(s, a, b) ==
    IF s = <<>> THEN <<>>
    ELSE <<IF Head(s) = a THEN b ELSE Head(s)>> \o Replace(Tail(s), a, b)

RECURSIVE Usable(_)
\* [p.strip() for p in parts if len(p.strip()) >= 2]
Usable(parts) ==
    IF parts = <<>> THEN <<>>
    ELSE (IF Len(Strip(Head(parts))) >= 2 THEN <<Strip(Head(parts))>> ELSE <<>>)
             \o Usable(Tail(parts))

NameParts(name) == Usable(Split(Replace(name, "/", "|"), "|"))

\* any(part in text[:500] for part in name_parts) on page i
LeadingTextHas(d, i, name_parts) ==
    LET text == Slice(PageText(d, i), 0, 500)
    IN  \E k \in 1..Len(name_parts) : Contains(name_parts[k], text)

CandidatesMutant(expected, search_range) ==
    [k \in 1..(2 * search_range) |->
        IF k % 2 = 1 THEN expected - (k + 1) \div 2 ELSE expected + k \div 2]

\* [expected_idx + delta, expected_idx - delta] for delta in 1..search_range
Candidates(expected, search_range) ==
    [k \in 1..(2 * search_range) |->
        IF k % 2 = 1 THEN expected + (k + 1) \div 2 ELSE expected - k \div 2]

RECURSIVE FirstHit(_, _, _, _, _)
\* the first candidate inside the document whose leading text has a part
FirstHit(d, cands, name_parts, total, fallback) ==
    IF cands = <<>> THEN fallback
    ELSE IF /\ 0 <= Head(cands) /\ Head(cands) < total
            /\ LeadingTextHas(d, Head(cands), name_parts)
         THEN Head(cands)
         ELSE FirstHit(d, Tail(cands), name_parts, total, fallback)

\* the probe that skips the check of the expected page itself
ProbeMutant(d, expected, name_parts, total) ==
    FirstHit(d, Candidates(expected, 2), name_parts, total, expected)

Probe(d, expected, name_parts, total) ==
    IF 0 <= expected /\ expected < total /\ LeadingTextHas(d, expected, name_parts)
    THEN expected
    ELSE FirstHit(d, Candidates(expected, 2), name_parts, total, expected)

_verify_page_with_fuzzy(d, expected, name, total) ==
    LET name_parts == NameParts(name)
    IN  IF name_parts = <<>> THEN expected
        ELSE Probe(d, expected, name_parts, total)

(***************************************************************************)
(* _calc_toc_offset, _toc_page_to_indices                                  *)
(***************************************************************************)
\* the path the file is read from, the key of _toc_offset_cache
Filepath == "latest.pdf"

RECURSIVE NonEmptyStripped(_)
NonEmptyStripped(lines) ==
    IF lines = <<>> THEN <<>>
    ELSE (IF Strip(Head(lines)) # <<>> THEN <<Strip(Head(lines))>> ELSE <<>>)
             \o NonEmptyStripped(Tail(lines))

\* [ln.strip() for ln in text.strip().split("\n") if ln.strip()]
TextLines(text) == NonEmptyStripped(Split(Strip(text), "\n"))

\* the printed footer number of a text: its last line if that is all digits,
\* -1 if there is no such line
LastLineNumber(lines) ==
    IF lines # <<>> /\ AllDigits(lines[Len(lines)])
    THEN DecimalValue(lines[Len(lines)])
    ELSE -1

FooterNumber(text) == LastLineNumber(TextLines(text))

\* offset = scan_idx - footer_num + 1 when the page has a footer number
FooterOffset(scan_idx, footer_num) ==
    IF footer_num >= 0 THEN [found |-> TRUE, offset |-> scan_idx - footer_num + 1]
    ELSE [found |-> FALSE, offset |-> 0]

\* the result of the page just read if it has one, else that of the later pages
OrElse(here, later) == IF here.found THEN here ELSE later

RECURSIVE FooterScan(_, _, _)
\* method 1: the pages scan_idx..last after the contents page
FooterScan(d, scan_idx, last) ==
    IF scan_idx > last THEN [found |-> FALSE, offset |-> 0]
    ELSE OrElse(FooterOffset(scan_idx, FooterNumber(PageText(d, scan_idx))),
                FooterScan(d, scan_idx + 1, last))

\* a page whose leading 500 characters have the anchor and a footer number
AnchorOffset(i, text) ==
    IF Contains(AnchorGeneral, text) THEN FooterOffset(i, FooterNumber(text))
    ELSE [found |-> FALSE, offset |-> 0]

RECURSIVE AnchorScan(_, _, _)
\* method 2: the pages i..last whose leading 500 characters have the anchor
AnchorScan(d, i, last) ==
    IF i > last THEN [found |-> FALSE, offset |-> 0]
    ELSE OrElse(AnchorOffset(i, Slice(PageText(d, i), 0, 500)),
                AnchorScan(d, i + 1, last))

FallbackOffset == 33

\* the first of the two methods that found a footer decides
FirstFound(byFooter, byAnchor) ==
    IF byFooter.found THEN byFooter.offset
    ELSE IF byAnchor.found THEN byAnchor.offset
    ELSE FallbackOffset

ComputeOffsetMutant(d, idx) ==
    FirstFound(IF idx >= 0 THEN FooterScan(d, idx + 2, Min(idx + 5, d.n) - 1)
               ELSE [found |-> FALSE, offset |-> 0],
               AnchorScan(d, 30, Min(50, d.n) - 1))

\* the offset computed from the file, the cache left aside
ComputeOffset(d, idx) ==
    FirstFound(IF idx >= 0 THEN FooterScan(d, idx + 1, Min(idx + 5, d.n) - 1)
               ELSE [found |-> FALSE, offset |-> 0],
               AnchorScan(d, 30, Min(50, d.n) - 1))

\* _toc_offset_cache[key] = offset
Stored(offset) == [offset |-> offset, cache |-> (Filepath :> offset)]

\* returns the offset and the cache as the call leaves it
_calc_toc_offset(d, idx, cache) ==
    IF Filepath \in DOMAIN cache
    THEN [offset |-> cache[Filepath], cache |-> cache]
    ELSE Stored(ComputeOffset(d, idx))

ClampedMutant(entry, total, start_ver, cache) ==
    LET page_span == entry.end_page - entry.page
        end_raw   == start_ver + page_span
        start_idx == Max(0, Min(start_ver, total - 1))
        end_idx   == Min(end_raw, total - 1)
    IN  [start |-> start_idx, end |-> end_idx, cache |-> cache]

\* the clamping of the verified start and of the end that follows from it
Clamped(entry, total, start_ver, cache) ==
    LET page_span == entry.end_page - entry.page
        end_raw   == start_ver + page_span
        start_idx == Max(0, Min(start_ver, total - 1))
        end_idx   == Max(start_idx, Min(end_raw, total - 1))
    IN  [start |-> start_idx, end |-> end_idx, cache |-> cache]

\* the indices of an entry for the offset and the cache that calc holds
IndicesAt(entry, d, total, calc) ==
    Clamped(entry, total,
            _verify_page_with_fuzzy(d, entry.page + calc.offset - 1, entry.name, total),
            calc.cache)

\* (start_idx, end_idx) of a TOC entry, and the cache as the call leaves it
_toc_page_to_indices(entry, d, total, idx, cache) ==
    IndicesAt(entry, d, total, _calc_toc_offset(d, idx, cache))

(***************************************************************************)
(* _find_cancer_pages                                                      *)
(***************************************************************************)
\* _CANCER_ALIASES, in the order of the dict
_CANCER_ALIASES ==
    <<[name |-> <<"UC18C", "UC138", "UD3EC", "UD3D0", "UC554">>,
        aliases |-> <<<<"s", "m", "a", "l", "l", " ", "c", "e", "l", "l", " ", "l", "u", "n", "g">>,
                      <<"s", "c", "l", "c">>>>],
      [name |-> <<"UBE44", "UC18C", "UC138", "UD3EC", "UD3D0", "UC554">>,
        aliases |-> <<<<"n", "o", "n", "-", "s", "m", "a", "l", "l", " ", "c", "e", "l", "l", " ", "l", "u", "n", "g">>,
                      <<"n", "s", "c", "l", "c">>>>],
      [name |-> <<"UC704", "UC554">>,
        aliases |-> <<<<"g", "a", "s", "t", "r", "i", "c">>,
                      <<"s", "t", "o", "m", "a", "c", "h">>>>],
      [name |-> <<"UC2DD", "UB3C4", "UC554">>,
        aliases |-> <<<<"e", "s", "o", "p", "h", "a", "g", "e", "a", "l">>,
                      <<"e", "s", "o", "p", "h", "a", "g", "u", "s">>>>],
      [name |-> <<"UAC11", "UC0C1", "UC120", "UC554">>,
        aliases |-> <<<<"t", "h", "y", "r", "o", "i", "d">>>>],
      [name |-> <<"UCDCC", "UC7A5", "UC554">>,
        aliases |-> <<<<"p", "a", "n", "c", "r", "e", "a", "t", "i", "c">>,
                      <<"p", "a", "n", "c", "r", "e", "a", "s">>>>],
      [name |-> <<"UAC04", "UC554">>,
        aliases |-> <<<<"h", "e", "p", "a", "t", "o", "c", "e", "l", "l", "u", "l", "a", "r">>,
                      <<"l", "i", "v", "e", "r">>,
                      <<"h", "c", "c">>>>],
      [name |-> <<"UB2F4", "UB3C4", "UC554">>,
        aliases |-> <<<<"b", "i", "l", "i", "a", "r", "y">>,
                      <<"c", "h", "o", "l", "a", "n", "g", "i", "o", "c", "a", "r", "c", "i", "n", "o", "m", "a">>>>],
      [name |-> <<"UC9C1", "UACB0", "UC7A5", "UC554">>,
        aliases |-> <<<<"c", "o", "l", "o", "r", "e", "c", "t", "a", "l">>,
                      <<"c", "o", "l", "o", "n">>,
                      <<"r", "e", "c", "t", "a", "l">>,
                      <<"c", "r", "c">>>>],
      [name |-> <<"UC720", "UBC29", "UC554">>,
        aliases |-> <<<<"b", "r", "e", "a", "s", "t">>>>],
      [name |-> <<"UB09C", "UC18C", "UC554">>,
        aliases |-> <<<<"o", "v", "a", "r", "i", "a", "n">>,
                      <<"o", "v", "a", "r", "y">>>>],
      [name |-> <<"UB09C", "UAD00", "UC554">>,
        aliases |-> <<<<"f", "a", "l", "l", "o", "p", "i", "a", "n">>>>],
      [name |-> <<"UC790", "UAD81", "UACBD", "UBD80", "UC554">>,
        aliases |-> <<<<"c", "e", "r", "v", "i", "c", "a", "l">>,
                      <<"c", "e", "r", "v", "i", "x">>>>],
      [name |-> <<"UC790", "UAD81", "UC554">>,
        aliases |-> <<<<"u", "t", "e", "r", "i", "n", "e">>,
                      <<"e", "n", "d", "o", "m", "e", "t", "r", "i", "a", "l">>>>],
      [name |-> <<"UC790", "UAD81", "UB0B4", "UB9C9", "UC554">>,
        aliases |-> <<<<"e", "n", "d", "o", "m", "e", "t", "r", "i", "a", "l">>,
                      <<"e", "n", "d", "o", "m", "e", "t", "r", "i", "u", "m">>>>],
      [name |-> <<"UC2E0", "UC7A5", "UC554">>,
        aliases |-> <<<<"r", "e", "n", "a", "l">>,
                      <<"k", "i", "d", "n", "e", "y">>,
                      <<"r", "c", "c">>>>],
      [name |-> <<"UC694", "UB85C", "UC0C1", "UD53C", "UC554">>,
        aliases |-> <<<<"u", "r", "o", "t", "h", "e", "l", "i", "a", "l">>,
                      <<"b", "l", "a", "d", "d", "e", "r">>>>],
      [name |-> <<"UC804", "UB9BD", "UC120", "UC554">>,
        aliases |-> <<<<"p", "r", "o", "s", "t", "a", "t", "e">>>>],
      [name |-> <<"UB450", "UACBD", "UBD80", "UC554">>,
        aliases |-> <<<<"h", "e", "a", "d", " ", "a", "n", "d", " ", "n", "e", "c", "k">>,
                      <<"h", "e", "a", "d", " ", "&", " ", "n", "e", "c", "k">>>>],
      [name |-> <<"UC2E0", "UACBD", "UB0B4", "UBD84", "UBE44", "UC554">>,
        aliases |-> <<<<"n", "e", "u", "r", "o", "e", "n", "d", "o", "c", "r", "i", "n", "e">>,
                      <<"n", "e", "t">>>>],
      [name |-> <<"UBA54", "UB974", "UCF08", "UC138", "UD3EC", "UC554">>,
        aliases |-> <<<<"m", "e", "r", "k", "e", "l">>>>],
      [name |-> <<"UD53C", "UBD80", "UC554">>,
        aliases |-> <<<<"s", "k", "i", "n">>,
                      <<"b", "c", "c">>,
                      <<"s", "c", "c">>>>],
      [name |-> <<"UACE8", "UC554">>,
        aliases |-> <<<<"b", "o", "n", "e">>,
                      <<"o", "s", "t", "e", "o", "s", "a", "r", "c", "o", "m", "a">>>>],
      [name |-> <<"UC911", "UCD94", "UC2E0", "UACBD", "UACC4", "UC554">>,
        aliases |-> <<<<"c", "n", "s">>,
                      <<"b", "r", "a", "i", "n">>,
                      <<"g", "l", "i", "o", "m", "a">>,
                      <<"g", "l", "i", "o", "b", "l", "a", "s", "t", "o", "m", "a">>>>],
      [name |-> <<"UC545", "UC131", "UD751", "UC0C9", "UC885">>,
        aliases |-> <<<<"m", "e", "l", "a", "n", "o", "m", "a">>>>],
      [name |-> <<"UC5F0", "UC870", "UC9C1", "UC721", "UC885">>,
        aliases |-> <<<<"s", "o", "f", "t", " ", "t", "i", "s", "s", "u", "e", " ", "s", "a", "r", "c", "o", "m", "a">>>>],
      [name |-> <<"UD6A1", "UBB38", "UADFC", "UC721", "UC885">>,
        aliases |-> <<<<"r", "h", "a", "b", "d", "o", "m", "y", "o", "s", "a", "r", "c", "o", "m", "a">>>>],
      [name |-> <<"UC0DD", "UC2DD", "UC138", "UD3EC", "UC885", "UC591">>,
        aliases |-> <<<<"g", "e", "r", "m", " ", "c", "e", "l", "l">>>>],
      [name |-> <<"UC2E0", "UACBD", "UBAA8", "UC138", "UD3EC", "UC885">>,
        aliases |-> <<<<"n", "e", "u", "r", "o", "b", "l", "a", "s", "t", "o", "m", "a">>>>],
      [name |-> <<"UC70C", "UB984", "UC988", "UC885", "UC591">>,
        aliases |-> <<<<"w", "i", "l", "m", "s">>>>],
      [name |-> <<"UB9DD", "UB9C9", "UBAA8", "UC138", "UD3EC", "UC885">>,
        aliases |-> <<<<"r", "e", "t", "i", "n", "o", "b", "l", "a", "s", "t", "o", "m", "a">>>>],
      [name |-> <<"UBE44", "UD638", "UC9C0", "UD0A8", "UB9BC", "UD504", "UC885">>,
        aliases |-> <<<<"n", "o", "n", "-", "h", "o", "d", "g", "k", "i", "n">>,
                      <<"n", "h", "l">>,
                      <<"l", "y", "m", "p", "h", "o", "m", "a">>>>],
      [name |-> <<"UD638", "UC9C0", "UD0A8", "UB9BC", "UD504", "UC885">>,
        aliases |-> <<<<"h", "o", "d", "g", "k", "i", "n">>>>],
      [name |-> <<"UB2E4", "UBC1C", "UACE8", "UC218", "UC885">>,
        aliases |-> <<<<"m", "u", "l", "t", "i", "p", "l", "e", " ", "m", "y", "e", "l", "o", "m", "a">>,
                      <<"m", "y", "e", "l", "o", "m", "a">>>>],
      [name |-> <<"UAE09", "UC131", "UACE8", "UC218", "UC131", "UBC31", "UD608", "UBCD1">>,
        aliases |-> <<<<"a", "m", "l">>,
                      <<"a", "c", "u", "t", "e", " ", "m", "y", "e", "l", "o", "i", "d">>>>],
      [name |-> <<"UAE09", "UC131", "UC804", "UACE8", "UC218", "UAD6C", "UC131", "UBC31", "UD608", "UBCD1">>,
        aliases |-> <<<<"a", "p", "l">>,
                      <<"p", "r", "o", "m", "y", "e", "l", "o", "c", "y", "t", "i", "c">>>>],
      [name |-> <<"UB9CC", "UC131", "UACE8", "UC218", "UC131", "UBC31", "UD608", "UBCD1">>,
        aliases |-> <<<<"c", "m", "l">>,
                      <<"c", "h", "r", "o", "n", "i", "c", " ", "m", "y", "e", "l", "o", "i", "d">>>>],
      [name |-> <<"UAE09", "UC131", "UB9BC", "UD504", "UBAA8", "UAD6C", "UBC31", "UD608", "UBCD1">>,
        aliases |-> <<<<"a", "l", "l">>,
                      <<"a", "c", "u", "t", "e", " ", "l", "y", "m", "p", "h", "o", "b", "l", "a", "s", "t", "i", "c">>>>],
      [name |-> <<"UB9CC", "UC131", "UB9BC", "UD504", "UAD6C", "UC131", "UBC31", "UD608", "UBCD1">>,
        aliases |-> <<<<"c", "l", "l">>,
                      <<"c", "h", "r", "o", "n", "i", "c", " ", "l", "y", "m", "p", "h", "o", "c", "y", "t", "i", "c">>>>],
      [name |-> <<"UACE8", "UC218", "UD615", "UC131", "UC774", "UC0C1", "UC99D", "UD6C4", "UAD70">>,
        aliases |-> <<<<"m", "d", "s">>,
                      <<"m", "y", "e", "l", "o", "d", "y", "s", "p", "l", "a", "s", "t", "i", "c">>>>]>>

\* PDF_SECTIONS, in the order of the dict
PDF_SECTIONS ==
    <<[name |-> <<"UC77C", "UBC18", "UC6D0", "UCE59">>,
        keywords |-> <<<<"UC77C", "UBC18", "UC6D0", "UCE59">>>>],
      [name |-> <<"UC554", "UC885", "UBCC4", "UD56D", "UC554", "UC694", "UBC95">>,
        keywords |-> <<<<"UC8FC", "UC694", " ", "UC554", "UC885", "UBCC4", " ", "UD56D", "UC554", "UC694", "UBC95">>>>],
      [name |-> <<"UD56D", "UC554", "UBA74", "UC5ED", "UC694", "UBC95", "UC81C">>,
        keywords |-> <<<<"UD56D", "UC554", "UBA74", "UC5ED", "UC694", "UBC95", "UC81C">>>>],
      [name |-> <<"UD56D", "UAD6C", "UD1A0", "UC81C">>,
        keywords |-> <<<<"UD56D", "UAD6C", "UD1A0", "UC81C">>>>],
      [name |-> <<"UBCC4", "UD45C">>,
        keywords |-> <<<<"UBCC4", "UD45C">>, <<"[", "UBCC4", "UD45C">>>>],
      [name |-> <<"UBD80", "UB85D">>,
        keywords |-> <<<<"UBD80", "UB85D">>, <<"UBD80", "UD45C">>>>]>>

NotFoundMutant(cache) == [indices |-> <<0>>, name |-> <<>>, cache |-> cache]

NotFound(cache) == [indices |-> <<>>, name |-> <<>>, cache |-> cache]

\* list(range(start, end + 1)), entry["name"]
Resolved(r, name) ==
    [indices |-> RangeList(r.start, r.end + 1), name |-> name, cache |-> r.cache]

\* _resolve(entry)
Resolve(entry, d, total, idx, cache) ==
    Resolved(_toc_page_to_indices(entry, d, total, idx, cache), entry.name)

\* stage 1 compares the lower-cased query with the entry name as it is
ExactMatchMutant(query, name) == Contains(query, Lower(name))

ExactMatch(query, name) == Contains(query, name)

\* the first entry of the list that satisfies a stage's test, 0 for none
FirstEntry(entries, Test(_)) ==
    IF \E i \in 1..Len(entries) : Test(entries[i])
    THEN CHOOSE i \in 1..Len(entries) :
             Test(entries[i]) /\ \A j \in 1..(i - 1) : ~Test(entries[j])
    ELSE 0

AliasApplies(query, a) ==
    \/ Contains(query, a.name)
    \/ \E k \in 1..Len(a.aliases) : Contains(a.aliases[k], query)

RECURSIVE AliasStage(_, _, _)
\* stage 2: the alias table from entry k on; the index of the TOC entry
\* found, 0 for none
AliasStage(entries, query, k) ==
    IF k > Len(_CANCER_ALIASES) THEN 0
    ELSE LET a == _CANCER_ALIASES[k]
             NameIn(entry) == Contains(a.name, entry.name)
         IN  IF AliasApplies(query, a) /\ FirstEntry(entries, NameIn) # 0
             THEN FirstEntry(entries, NameIn)
             ELSE AliasStage(entries, query, k + 1)

\* stage 3: any(c in entry_lower for c in query if len(c) > 1)
LooseMatch(query, name) ==
    \E k \in 1..Len(query) :
        CharLen(query[k]) > 1 /\ Contains(<<query[k]>>, Lower(name))

SelectEntryMutant(entries, cancer) ==
    LET query == Strip(Lower(cancer))
        Stage1(entry) == ExactMatch(query, entry.name)
        Stage3(entry) == LooseMatch(query, entry.name)
    IN  IF AliasStage(entries, query, 1) # 0 THEN AliasStage(entries, query, 1)
        ELSE IF FirstEntry(entries, Stage1) # 0 THEN FirstEntry(entries, Stage1)
        ELSE FirstEntry(entries, Stage3)

\* the index in entries of the entry the cascade selects, 0 for none
SelectEntry(entries, cancer) ==
    LET query == Strip(Lower(cancer))
        Stage1(entry) == ExactMatch(query, entry.name)
        Stage3(entry) == LooseMatch(query, entry.name)
    IN  IF FirstEntry(entries, Stage1) # 0 THEN FirstEntry(entries, Stage1)
        ELSE IF AliasStage(entries, query, 1) # 0 THEN AliasStage(entries, query, 1)
        ELSE FirstEntry(entries, Stage3)

\* the result for the entry selected, entry i of the list
ResolveSelected(i, entries, total, d, idx, cache) ==
    IF i = 0 THEN NotFound(cache)
    ELSE Resolve(entries[i], d, total, idx, cache)

_find_cancer_pages(entries, cancer, total, d, idx, cache) ==
    ResolveSelected(SelectEntry(entries, cancer), entries, total, d, idx, cache)

(***************************************************************************)
(* _find_section_pages_from_toc, _find_section_pages_by_scan               *)
(***************************************************************************)
\* PDF_SECTIONS.get(section, [section])
SectionKeywords(sec) ==
    IF \E k \in 1..Len(PDF_SECTIONS) : PDF_SECTIONS[k].name = sec
    THEN PDF_SECTIONS[CHOOSE k \in 1..Len(PDF_SECTIONS) : PDF_SECTIONS[k].name = sec].keywords
    ELSE <<sec>>

RECURSIVE OtherKeywords(_, _)
\* the keywords of the sections named otherwise, from table entry k on
OtherKeywords(sec, k) ==
    IF k > Len(PDF_SECTIONS) THEN <<>>
    ELSE (IF PDF_SECTIONS[k].name # sec THEN PDF_SECTIONS[k].keywords ELSE <<>>)
             \o OtherKeywords(sec, k + 1)

AnyIn(keywords, text) == \E k \in 1..Len(keywords) : Contains(keywords[k], text)

\* the leading 500 characters of the stripped text of page i
Header(d, i) == Slice(Strip(PageText(d, i)), 0, 500)

\* the first page from i on whose header has a keyword, -1 for None: the
\* loop over enumerate(pdf.pages) with its break
ScanStart(d, keywords, i) ==
    LET hits == {j \in i..(d.n - 1) : Header(d, j) # <<>> /\ AnyIn(keywords, Header(d, j))}
    IN  IF hits = {} THEN -1 ELSE Nth(hits, 1)

\* the page before the first page in i..last-1 whose header has a keyword of
\* another section, default when there is none: the second loop with its
\* break
ScanEnd(d, other_keywords, i, last, default) ==
    LET hits == {j \in i..(last - 1) : AnyIn(other_keywords, Header(d, j))}
    IN  IF hits = {} THEN default ELSE Nth(hits, 1) - 1

\* the range from the start page found, [] when none was found
ScanFrom(d, sec, total, start_page) ==
    IF start_page = -1 THEN <<>>
    ELSE RangeList(start_page,
                   ScanEnd(d, OtherKeywords(sec, 1), start_page + 1,
                           Min(start_page + 100, total),
                           Min(start_page + 50, total - 1)) + 1)

_find_section_pages_by_scan(d, sec, total) ==
    ScanFrom(d, sec, total, ScanStart(d, SectionKeywords(sec), 0))

\* list(range(start, end + 1))
SectionRange(r) == [indices |-> RangeList(r.start, r.end + 1), cache |-> r.cache]

\* the range of entry i of the list, the scan when i is 0
SectionAt(i, entries, sec, d, total, idx, cache) ==
    IF i # 0 THEN SectionRange(_toc_page_to_indices(entries[i], d, total, idx, cache))
    ELSE [indices |-> _find_section_pages_by_scan(d, sec, total), cache |-> cache]

\* the first entry of the list whose name has one of the keywords, 0 for none
SectionEntryIndex(entries, keywords) ==
    LET Named(entry) == AnyIn(keywords, entry.name)
    IN  FirstEntry(entries, Named)

\* returns the indices and the cache as the call leaves it
_find_section_pages_from_toc(entries, sec, d, total, idx, cache) ==
    SectionAt(SectionEntryIndex(entries, SectionKeywords(sec)), entries, sec, d,
              total, idx, cache)

(***************************************************************************)
(* _search_pdf                                                             *)
(***************************************************************************)
_SEARCH_MAX_RESULTS == 20

_SEARCH_CONTEXT_CHARS == 200

Ellipsis == "U2026"

\* context, with the marks of what was cut off before start and after end
Marked(text, start, end) ==
    (IF start > 0 THEN <<Ellipsis>> ELSE <<>>) \o Strip(Slice(text, start, end))
        \o (IF end < Len(text) THEN <<Ellipsis>> ELSE <<>>)

\* the window of _SEARCH_CONTEXT_CHARS characters on both sides of the match
Window(text, keyword, idx) ==
    Marked(text, Max(0, idx - _SEARCH_CONTEXT_CHARS),
           Min(Len(text), idx + Len(keyword) + _SEARCH_CONTEXT_CHARS))

\* the context cut from a page text around the first occurrence
MatchContext(text, keyword) ==
    Window(text, keyword, IndexOf(Lower(keyword), Lower(text)))

\* the cap compared with len(matches)
MatchLimitMutant == _SEARCH_MAX_RESULTS + 1

MatchLimit == _SEARCH_MAX_RESULTS

\* the pages whose text has the keyword, whatever the case of the letters
MatchingPages(d, keyword) ==
    {i \in 0..(d.n - 1) : Contains(Lower(keyword), Lower(PageText(d, i)))}

\* the loop over the pages in order, left when len(matches) reaches the cap
SearchMatches(d, keyword) ==
    LET hits == MatchingPages(d, keyword)
    IN  [k \in 1..Min(Cardinality(hits), MatchLimit) |->
            [page |-> Nth(hits, k) + 1,
             context |-> MatchContext(PageText(d, Nth(hits, k)), keyword)]]

\* the one text block returned
_search_pdf(d, keyword, total) ==
    LET matches == SearchMatches(d, keyword)
    IN  IF matches = <<>>
        THEN <<[type |-> "text", kind |-> "search_none", keyword |-> keyword,
                total |-> total]>>
        ELSE <<[type |-> "text", kind |-> "search", keyword |-> keyword,
                total |-> total, matches |-> matches,
                hint |-> [k \in 1..Min(5, Len(matches)) |-> matches[k].page]]>>

(***************************************************************************)
(* read_pdf: the render loop                                               *)
(***************************************************************************)
_TABLE_THRESHOLD == 1

_MAX_PAGES_PER_CALL == 50

_MAX_IMAGE_PAGES == 5

\* str(e) of the exception extract_text() raises
ExtractError == <<"b", "o", "o", "m">>

\* "--- p.{page_num}"
PageMark(page_num) == <<"-", "-", "-", " ", "p", ".">> \o DecimalString(page_num)

_extract_text_safe(page, page_num) ==
    IF page.extract = "raise"
    THEN PageMark(page_num) \o <<" ", "(", "UCD94", "UCD9C", " ", "UC2E4", "UD328", ":", " ">>
             \o ExtractError \o <<")", " ", "-", "-", "-">>
    ELSE IF Strip(page.text) # <<>>
    THEN PageMark(page_num) \o <<" ", "-", "-", "-", "\n">> \o Strip(page.text)
    ELSE PageMark(page_num)
             \o <<" ", "(", "UBE48", " ", "UD398", "UC774", "UC9C0", ")", " ", "-", "-", "-">>

\* "--- p.{page_num} (테이블 포함, 이미지 제한 초과 → 텍스트) ---\n"
DegradedMark(page_num) ==
    PageMark(page_num)
        \o <<" ", "(", "UD14C", "UC774", "UBE14", " ", "UD3EC", "UD568", ",", " ",
             "UC774", "UBBF8", "UC9C0", " ", "UC81C", "UD55C", " ", "UCD08", "UACFC",
             " ", "U2192", " ", "UD14D", "UC2A4", "UD2B8", ")", " ", "-", "-", "-", "\n">>

\* mark + text.split("\n", 1)[-1] if "\n" in text else text: the conditional
\* binds looser than +, so the mark is lost with a one-line text
DegradedText(text, page_num) ==
    IF Contains(<<"\n">>, text)
    THEN LET parts == Split1(text, "\n")
         IN  DegradedMark(page_num) \o parts[Len(parts)]
    ELSE text

\* "--- 📊 p.{page_num} (테이블 포함 → 이미지) ---"
ImageMark(page_num) ==
    [type |-> "text",
     text |-> <<"-", "-", "-", " ", "U1F4CA", " ", "p", ".">> \o DecimalString(page_num)
                  \o <<" ", "(", "UD14C", "UC774", "UBE14", " ", "UD3EC", "UD568", " ",
                       "U2192", " ", "UC774", "UBBF8", "UC9C0", ")", " ", "-", "-", "-">>]

\* the PNG of page page_idx, base64-encoded
ImageBlock(page_idx) == [type |-> "image", data |-> page_idx, mimeType |-> "image/png"]

RECURSIVE JoinWith(_, _)
\* sep.join(parts)
JoinWith(sep, parts) ==
    IF parts = <<>> THEN <<>>
    ELSE IF Len(parts) = 1 THEN parts[1]
    ELSE parts[1] \o sep \o JoinWith(sep, Tail(parts))

\* TextContent(type="text", text="\n\n".join(text_buffer))
BufferBlock(buffer) == [type |-> "text", text |-> JoinWith(<<"\n", "\n">>, buffer)]

FlushedMutant(blocks, buffer) == blocks

Flushed(blocks, buffer) ==
    IF buffer # <<>> THEN Append(blocks, BufferBlock(buffer)) ELSE blocks

\* the block appended when the image limit was reached
ImageLimitNotice ==
    [type |-> "text",
     text |-> <<"\n", "U26A0", "UFE0F", " ", "UC774", "UBBF8", "UC9C0", " ", "UB80C",
                "UB354", "UB9C1", " ">> \o DecimalString(_MAX_IMAGE_PAGES)
                  \o <<"p", " ", "UC81C", "UD55C", " ", "UB3C4", "UB2EC", ".", " ",
                       "UB098", "UBA38", "UC9C0", " ", "UD14C", "UC774", "UBE14", " ",
                       "UD398", "UC774", "UC9C0", "UB294", " ", "UD14D", "UC2A4",
                       "UD2B8", "UB85C", " ", "UBC18", "UD658", "UB428", ".", " ",
                       "t", "e", "x", "t", "_", "o", "n", "l", "y", "=", "t", "r",
                       "u", "e", "UB85C", " ", "UC804", "UCCB4", " ", "UD14D",
                       "UC2A4", "UD2B8", " ", "UC870", "UD68C", " ", "UAC00",
                       "UB2A5", ".">>]

\* len(tables) >= _TABLE_THRESHOLD, False when find_tables() raises
HasTables(page) ==
    /\ page.tables # "error"
    /\ (IF page.tables = "some" THEN 1 ELSE 0) >= _TABLE_THRESHOLD

ImageBudgetLeftMutant(count) == count <= _MAX_IMAGE_PAGES

ImageBudgetLeft(count) == count < _MAX_IMAGE_PAGES

NoticeDueMutant(count) == count > _MAX_IMAGE_PAGES

NoticeDue(count) == count >= _MAX_IMAGE_PAGES

\* which branch of the loop body a page takes
PageRouteMutant(page, text_only_flag, count) ==
    IF HasTables(page) /\ ImageBudgetLeft(count) THEN "image"
    ELSE IF HasTables(page) /\ count >= _MAX_IMAGE_PAGES THEN "degraded"
    ELSE "text"

PageRoute(page, text_only_flag, count) ==
    IF text_only_flag THEN "text"
    ELSE IF HasTables(page) /\ ImageBudgetLeft(count) THEN "image"
    ELSE IF HasTables(page) /\ count >= _MAX_IMAGE_PAGES THEN "degraded"
    ELSE "text"

RenderFailedMutant(flushed, text, count) ==
    [results |-> flushed, text_buffer |-> <<>>, image_page_count |-> count + 1]

\* except Exception: the text of the page goes to the buffer, which the
\* flush before the rendering left empty
RenderFailed(flushed, text, count) ==
    [results |-> flushed, text_buffer |-> <<text>>, image_page_count |-> count]

\* one iteration of the loop over page_indices
LoopBody(d, page_idx, text_only_flag, blocks, buffer, count) ==
    LET page_num == page_idx + 1
        page     == PageAt(d, page_idx)
        text     == _extract_text_safe(page, page_num)
        route    == PageRoute(page, text_only_flag, count)
    IN  IF page_idx >= d.n
        THEN [results |-> blocks, text_buffer |-> buffer, image_page_count |-> count]
        ELSE IF route = "image" /\ page.render = "ok"
        THEN [results |-> Flushed(blocks, buffer)
                              \o <<ImageMark(page_num), ImageBlock(page_idx)>>,
              text_buffer |-> <<>>, image_page_count |-> count + 1]
        ELSE IF route = "image"
        THEN RenderFailed(Flushed(blocks, buffer), text, count)
        ELSE IF route = "degraded"
        THEN [results |-> blocks,
              text_buffer |-> Append(buffer, DegradedText(text, page_num)),
              image_page_count |-> count]
        ELSE [results |-> blocks, text_buffer |-> Append(buffer, text),
              image_page_count |-> count]

\* after the loop: the remaining buffer, then the notice
Finished(blocks, buffer, count) ==
    LET flushed == Flushed(blocks, buffer)
    IN  IF NoticeDue(count) THEN Append(flushed, ImageLimitNotice) ELSE flushed

RECURSIVE Runs(_, _, _, _)
\* the runs of consecutive indices from position k on, as pairs <<start, prev>>
Runs(indices, k, start, prev) ==
    IF k > Len(indices) THEN <<<<start, prev>>>>
    ELSE IF indices[k] = prev + 1 THEN Runs(indices, k + 1, start, indices[k])
    ELSE <<<<start, prev>>>> \o Runs(indices, k + 1, indices[k], indices[k])

RunLabel(run) ==
    IF run[1] = run[2] THEN <<"p", ".">> \o DecimalString(run[1] + 1)
    ELSE <<"p", ".">> \o DecimalString(run[1] + 1) \o <<"-">> \o DecimalString(run[2] + 1)

_format_page_range(indices) ==
    IF indices = <<>> THEN <<"(", "UC5C6", "UC74C", ")">>
    ELSE LET runs == Runs(indices, 2, indices[1], indices[1])
         IN  JoinWith(<<",", " ">>, [k \in 1..Len(runs) |-> RunLabel(runs[k])])

MetaBlockMutant(total, indices, is_truncated, label, text_only_flag) ==
    [type |-> "text", kind |-> "meta", name |-> Filepath, total |-> total,
     shown |-> _format_page_range(indices), count |-> Len(indices),
     truncated |-> is_truncated, label |-> <<>>, text_only |-> text_only_flag]

\* the first block: the file name, the page count, the range shown and the
\* optional lines of the f-string
MetaBlock(total, indices, is_truncated, label, text_only_flag) ==
    [type |-> "text", kind |-> "meta", name |-> Filepath, total |-> total,
     shown |-> _format_page_range(indices), count |-> Len(indices),
     truncated |-> is_truncated, label |-> label, text_only |-> text_only_flag]

\* the block listing the contents
_format_toc_response(entries, total) ==
    <<[type |-> "text", kind |-> "toc", name |-> Filepath, total |-> total,
       lines |-> [k \in 1..Len(entries) |->
                     [num |-> entries[k].num, name |-> entries[k].name,
                      page |-> entries[k].page]]]>>

\* "(TOC 파싱 실패)"
TocParseFailed == <<"(", "T", "O", "C", " ", "UD30C", "UC2F1", " ", "UC2E4", "UD328", ")">>

AvailableMutant(entries) == TocParseFailed

\* ", ".join(e["name"] for e in toc) if toc else "(TOC 파싱 실패)"
Available(entries) ==
    IF entries # <<>>
    THEN JoinWith(<<",", " ">>, [k \in 1..Len(entries) |-> entries[k].name])
    ELSE TocParseFailed

TopicNotFound(cancer, entries) ==
    <<[type |-> "text", kind |-> "cancer_not_found", cancer_type |-> cancer,
       available |-> Available(entries)]>>

SectionNotFound(sec, total) ==
    <<[type |-> "text", kind |-> "section_not_found", section |-> sec,
       available |-> [k \in 1..Len(PDF_SECTIONS) |-> PDF_SECTIONS[k].name],
       total |-> total]>>

(***************************************************************************)
(* _parse_page_range                                                       *)
(***************************************************************************)
\* a raised ValueError, and a returned list
ValueError == [raised |-> TRUE, list |-> <<>>]

Returned(list) == [raised |-> FALSE, list |-> list]

PartRangeEndMutant(end_s, total) == Min(IntVal(end_s), total - 1)

PartRangeEnd(end_s, total) == Min(IntVal(end_s) - 1, total - 1)

\* one comma-separated part: the indices it adds to result
PartIndices(part0, total) ==
    LET part == Strip(part0)
    IN  IF Contains(<<"-">>, part)
        THEN LET halves == Split1(part, "-")
                 start_s == Strip(halves[1])
                 end_s   == Strip(halves[2])
             IN  IF ~IntOk(start_s) \/ ~IntOk(end_s) THEN ValueError
                 ELSE LET start == Max(IntVal(start_s) - 1, 0)
                          end   == PartRangeEnd(end_s, total)
                      IN  Returned(RangeList(start, end + 1))
        ELSE IF ~IntOk(part) THEN ValueError
             ELSE LET idx == IntVal(part) - 1
                  IN  Returned(IF 0 <= idx /\ idx < total THEN <<idx>> ELSE <<>>)

RECURSIVE ExtendParts(_, _, _)
\* the for loop: result.extend(...) part by part; the first bad part raises
ExtendParts(parts, total, result) ==
    IF parts = <<>> THEN Returned(result)
    ELSE LET got == PartIndices(Head(parts), total)
         IN  IF got.raised THEN ValueError
             ELSE ExtendParts(Tail(parts), total, result \o got.list)

_parse_page_range(pages_str, total) ==
    LET result == ExtendParts(Split(pages_str, ","), total, <<>>)
    IN  IF result.raised THEN ValueError
        ELSE Returned(SortedList(SeqToSet(result.list)))

(***************************************************************************)
(* Specification of _parse_page_range over bounded page expressions        *)
(***************************************************************************)
MaxStrLen == 5

MaxTotal == 4

RangeChars == {"1", "3", "-", ",", " "}

RECURSIVE StringsUpTo(_, _)
StringsUpTo(chars, n) ==
    IF n = 0 THEN {<<>>}
    ELSE LET shorter == StringsUpTo(chars, n - 1)
         IN  shorter \cup {Append(s, c) : s \in shorter, c \in chars}

RangeInit ==
    /\ pc = "range_call"
    /\ pages \in StringsUpTo(RangeChars, MaxStrLen)
    /\ total_pages \in 0..MaxTotal
    /\ page_indices = <<>>
    /\ section = <<>> /\ cancer_type = <<>> /\ search = <<>> /\ text_only = FALSE
    /\ doc = NoDoc
    /\ TocIdle /\ RenderIdle /\ VerifyIdle /\ OffsetIdle /\ HandlesIdle /\ CallersIdle
    /\ _toc_offset_cache = EmptyCache

ParsePageRange ==
    /\ pc = "range_call"
    /\ LET r == _parse_page_range(pages, total_pages)
       IN  IF r.raised
           THEN pc' = "range_raised" /\ page_indices' = <<>>
           ELSE pc' = "range_done" /\ page_indices' = r.list
    /\ UNCHANGED <<doc, queryVars, total_pages, tocVars, renderVars, verifyVars, toc_offset,
                   _toc_offset_cache,
                   handles, callers>>

RangeNext == ParsePageRange

SpecRange == RangeInit /\ [][RangeNext]_vars

(***************************************************************************)
(* Specification of _parse_toc over documents whose page 25 is a contents  *)
(* page typeset from bounded lists of line items and section markers       *)
(***************************************************************************)
MaxItems == 3

MaxPrinted == 3

\* the name typeset for the i-th line item: the Hangul syllable U+AC00 + i
ItemNames == <<"UAC00", "UAC01", "UAC02", "UAC03", "UAC04", "UAC05">>

ItemLine(i, page) ==
    DecimalString(i) \o <<".", " ">> \o <<ItemNames[i], "UC554">>
        \o <<DotLeader, DotLeader>> \o DecimalString(page)

SectionLine(j, page) ==
    <<BoxGlyph, " ", "S", Digits[j + 1], DotLeader, DotLeader, DotLeader>>
        \o DecimalString(page)

RECURSIVE JoinLines(_)
JoinLines(lines) ==
    IF lines = <<>> THEN <<>>
    ELSE Head(lines) \o <<"\n">> \o JoinLines(Tail(lines))

\* one item a line, or two items a line (the two-column layout)
ItemLines(item_pages, columns) ==
    IF columns = 1
    THEN [i \in 1..Len(item_pages) |-> ItemLine(i, item_pages[i])]
    ELSE [r \in 1..((Len(item_pages) + 1) \div 2) |->
            IF 2 * r <= Len(item_pages)
            THEN ItemLine(2 * r - 1, item_pages[2 * r - 1]) \o <<" ">>
                     \o ItemLine(2 * r, item_pages[2 * r])
            ELSE ItemLine(2 * r - 1, item_pages[2 * r - 1])]

ContentsText(item_pages, section_pages, columns) ==
    JoinLines(<<AnchorGeneral \o <<" ">> \o AnchorByCancer>>
              \o [j \in 1..Len(section_pages) |-> SectionLine(j, section_pages[j])]
              \o ItemLines(item_pages, columns))

SeqsUpTo(S, n) == UNION {[1..k -> S] : k \in 0..n}

ContentsTexts ==
    {ContentsText(ip, sp, c) :
        ip \in SeqsUpTo(1..MaxPrinted, MaxItems) \ {<<>>},
        sp \in SeqsUpTo({2} \cup (MaxPrinted..(MaxPrinted + 2)), 2),
        c \in {1, 2}}

TocDoc(text) == [n |-> 30, pg |-> (25 :> TextPage(text))]

TocInit ==
    /\ pc = "toc_call"
    /\ doc \in {TocDoc(t) : t \in ContentsTexts}
    /\ total_pages = doc.n
    /\ page_indices = <<>>
    /\ QueryIdle /\ TocIdle /\ RenderIdle /\ VerifyIdle /\ OffsetIdle /\ HandlesIdle /\ CallersIdle
    /\ _toc_offset_cache = EmptyCache

ParseToc ==
    /\ pc = "toc_call"
    /\ LET r == _parse_toc(doc)
       IN  toc' = r.entries /\ toc_page_idx' = r.idx
    /\ pc' = "toc_done"
    /\ UNCHANGED <<doc, queryVars, total_pages, page_indices, renderVars, verifyVars, toc_offset,
                   _toc_offset_cache,
                   handles, callers>>

TocNext == ParseToc

SpecToc == TocInit /\ [][TocNext]_vars

(***************************************************************************)
(* Specification of _verify_page_with_fuzzy: a verification, and then a    *)
(* verification of the index it returned                                   *)
(***************************************************************************)
MaxVerifyPages == 5

FragmentA == <<"UB09C", "UC18C", "UC554">>

FragmentB == <<"UB09C", "UAD00", "UC554">>

Filler(n) == [i \in 1..n |-> "x"]

\* page texts: blank, a fragment in the leading 500 characters (two texts),
\* and a fragment cut by the 500th character
VerifyTexts ==
    {<<>>,
     <<"1", ".", " ">> \o FragmentA \o <<"\n">> \o Filler(3),
     Filler(2) \o FragmentB,
     Filler(498) \o FragmentA}

\* names: two parts, one part, a part between spaces and a one-character
\* part, and no usable part
VerifyNames ==
    {FragmentA \o <<"/">> \o FragmentB,
     FragmentB,
     <<" ">> \o FragmentA \o <<" ", "|", "x", "/">>,
     <<"x", "/", " ", "y", " ">>}

VerifyDocs ==
    UNION {{[n |-> k, pg |-> [i \in 0..(k - 1) |-> TextPage(f[i + 1])]] :
               f \in [1..k -> VerifyTexts]} : k \in 0..MaxVerifyPages}

VerifyInit ==
    /\ pc = "verify_call"
    /\ doc \in VerifyDocs
    /\ total_pages = doc.n
    /\ cancer_name \in VerifyNames
    /\ expected_idx \in (0 - 3)..(doc.n + 2)
    /\ verified = <<>>
    /\ page_indices = <<>>
    /\ QueryIdle /\ TocIdle /\ RenderIdle /\ OffsetIdle /\ HandlesIdle /\ CallersIdle
    /\ _toc_offset_cache = EmptyCache

Verify ==
    /\ pc = "verify_call"
    /\ verified' = <<_verify_page_with_fuzzy(doc, expected_idx, cancer_name, total_pages)>>
    /\ pc' = "verify_again"
    /\ UNCHANGED <<doc, queryVars, total_pages, page_indices, tocVars, renderVars,
                   cancer_name, expected_idx, toc_offset,
                   _toc_offset_cache,
                   handles, callers>>

VerifyAgain ==
    /\ pc = "verify_again"
    /\ verified' = Append(verified,
                       _verify_page_with_fuzzy(doc, verified[1], cancer_name, total_pages))
    /\ pc' = "verify_done"
    /\ UNCHANGED <<doc, queryVars, total_pages, page_indices, tocVars, renderVars,
                   cancer_name, expected_idx, toc_offset,
                   _toc_offset_cache,
                   handles, callers>>

VerifyNext == Verify \/ VerifyAgain

SpecVerify == VerifyInit /\ [][VerifyNext]_vars

(***************************************************************************)
(* read_pdf: the calls checked                                             *)
(***************************************************************************)
MaxRenderPages == 6

MaxSearchPages == 2

MaxQueryLen == 2

TablePage(t) == [text |-> t, extract |-> "ok", tables |-> "some", render |-> "ok"]

UnrenderablePage(t) == [text |-> t, extract |-> "ok", tables |-> "some", render |-> "fail"]

\* a table page whose text cannot be extracted, a page whose tables cannot be found
UnreadablePage == [text |-> <<>>, extract |-> "raise", tables |-> "some", render |-> "ok"]

UndetectablePage == [text |-> <<"a">>, extract |-> "ok", tables |-> "error", render |-> "ok"]

PageKinds ==
    {TextPage(<<"a">>), TablePage(<<"a", "\n", "b">>), TablePage(<<>>),
     UnrenderablePage(<<"a">>)}

\* the documents of n pages whose pages are drawn from kinds
DocsOf(kinds, n) == {[n |-> n, pg |-> [i \in 0..(n - 1) |-> f[i + 1]]] : f \in [1..n -> kinds]}

DocsUpTo(kinds, n) == UNION {DocsOf(kinds, k) : k \in 0..n}

\* a document of n pages each of which is the page given
Uniform(page, n) == [n |-> n, pg |-> [i \in 0..(n - 1) |-> page]]

\* ten pages, a table on each
TenTableDoc == Uniform(TablePage(<<"a", "\n", "b">>), 10)

\* six table pages, then a table page whose text cannot be extracted, a page
\* whose tables cannot be found and a last table page
EdgeDoc ==
    [n |-> 9,
     pg |-> [i \in 0..8 |-> IF i = 6 THEN UnreadablePage
                            ELSE IF i = 7 THEN UndetectablePage
                            ELSE TablePage(<<"a">>)]]

Str_Ovarian == <<"O", "v", "a", "r", "i", "a", "n">>

Str_ovarian == <<"o", "v", "a", "r", "i", "a", "n">>

Str_cancer == <<"c", "a", "n", "c", "e", "r">>

Str_OvarianCancer == Str_Ovarian \o <<" ">> \o Str_cancer

Str_CervicalCancer == <<"C", "e", "r", "v", "i", "c", "a", "l", " ">> \o Str_cancer

\* 난소암, 자궁경부암
Str_Nansoam == <<"UB09C", "UC18C", "UC554">>

Str_Jagunggyeongbuam == <<"UC790", "UAD81", "UACBD", "UBD80", "UC554">>

Str_pembrolizumab == <<"p", "e", "m", "b", "r", "o", "l", "i", "z", "u", "m", "a", "b">>

\* a contents page: the two anchors, then line items 1 and 2 on printed
\* pages 64 and 68
ContentsOf(name1, name2) ==
    AnchorGeneral \o <<" ">> \o AnchorByCancer \o <<"\n">>
        \o <<"1", ".", " ">> \o name1 \o <<DotLeader, DotLeader, "6", "4", "\n">>
        \o <<"2", ".", " ">> \o name2 \o <<DotLeader, DotLeader, "6", "8", "\n">>

\* 80 pages; the contents page is page index 25; page index 26 carries the
\* printed footer 23, so that the offset is 26 - 23 + 1 = 4
TopicDoc(name1, name2) ==
    [n |-> 80,
     pg |-> (25 :> TextPage(ContentsOf(name1, name2)))
                @@ (26 :> TextPage(<<"x", "\n", "2", "3">>))]

OvarianDoc == TopicDoc(Str_OvarianCancer, Str_CervicalCancer)

NansoamDoc == TopicDoc(Str_Nansoam, Str_Jagunggyeongbuam)

\* the same two entries in the other order
CervixFirstDoc == TopicDoc(Str_Jagunggyeongbuam, Str_Nansoam)

\* 자궁내막암, 자궁암
Str_Jagungnaemagam == <<"UC790", "UAD81", "UB0B4", "UB9C9", "UC554">>

Str_Jagungam == <<"UC790", "UAD81", "UC554">>

Str_endometrial == <<"e", "n", "d", "o", "m", "e", "t", "r", "i", "a", "l">>

\* 자궁내막암 on printed page 64, 자궁암 on printed page 68
UterineDoc == TopicDoc(Str_Jagungnaemagam, Str_Jagungam)

\* documents in which _parse_toc finds no entry: too short, no contents
\* page, a contents page whose one line item has no page number, a page
\* with a line item and one anchor only
NoTocDocs ==
    DocsUpTo({TextPage(<<"a">>)}, 2)
        \cup {[n |-> 30, pg |-> EmptyCache],
              [n |-> 30, pg |-> (25 :> TextPage(AnchorGeneral \o <<" ">> \o AnchorByCancer
                                                  \o <<"\n", "1", ".", " ", "x">>))],
              [n |-> 30, pg |-> (25 :> TextPage(AnchorGeneral \o <<"\n", "1", ".", " ">>
                                                  \o Str_Nansoam
                                                  \o <<DotLeader, DotLeader, "6", "4">>))]}

TopicChars == {"a", "A", " ", "UC554"}

TopicQueries ==
    (StringsUpTo(TopicChars, MaxQueryLen) \ {<<>>})
        \cup {Str_ovarian, Str_Ovarian, Str_cancer, Str_Nansoam, Str_endometrial}

SectionQueries == {AnchorGeneral, <<"UBCC4", "UD45C">>, <<"z">>}

\* 60 pages; 일반원칙 heads page index 3 and 별표 heads page index 7
SectionDoc ==
    [n |-> 60,
     pg |-> (3 :> TextPage(AnchorGeneral \o <<"\n", "a">>))
                @@ (7 :> TextPage(<<"UBCC4", "UD45C", " ", "1">>))]

PagesQueries ==
    {<<"1">>, <<"2", "-", "3">>, <<"3", ",", "1">>, <<"9">>, <<"x">>, <<"2", "-">>}

SearchTexts == {<<>>, <<" ">>, <<"a", "b">>, <<"A", "B", " ", "c">>, <<"\n", "b", " ">>}

SearchKeywords == {<<" ">>, <<"b">>, <<"B">>, <<"a", "b">>, <<"c", " ">>}

\* 150 pages; pembrolizumab is on pages 12 and 140
PembrolizumabDoc ==
    [n |-> 150,
     pg |-> (11 :> TextPage(<<"P">> \o Tail(Str_pembrolizumab) \o <<" ", "2", "0", "0">>))
                @@ (139 :> TextPage(<<"x", " ">> \o Str_pembrolizumab))]

\* 25 pages, the keyword on each
EveryPageDoc == Uniform(TextPage(<<"a", "b">>), 25)

\* the keyword further than the context window from both ends of the text
LongTextDoc ==
    [n |-> 2,
     pg |-> (1 :> TextPage(Filler(_SEARCH_CONTEXT_CHARS + 3) \o <<" ", "a", "b", " ">>
                              \o Filler(_SEARCH_CONTEXT_CHARS + 3)))]

\* two pages more than one call shows
OverLimitDoc == Uniform(TextPage(<<"a">>), _MAX_PAGES_PER_CALL + 2)

\* the arguments of one call of read_pdf on the document d
Call(d, p, s, c, k, t) ==
    [doc |-> d, pages |-> p, section |-> s, cancer_type |-> c, search |-> k,
     text_only |-> t]

RenderCalls ==
    {Call(d, <<>>, <<>>, <<>>, <<>>, t) :
        d \in DocsUpTo(PageKinds, MaxRenderPages) \cup {TenTableDoc, EdgeDoc, NansoamDoc},
        t \in BOOLEAN}

PagesCalls ==
    {Call(d, p, <<>>, <<>>, <<>>, t) :
        d \in DocsUpTo({TextPage(<<"a">>), TablePage(<<"a">>)}, 3), p \in PagesQueries,
        t \in BOOLEAN}
        \cup {Call(TenTableDoc, <<"1", "-", "1", "0">>, <<>>, <<>>, <<>>, t) : t \in BOOLEAN}
        \cup {Call(OverLimitDoc, <<"1", "-">> \o DecimalString(n), <<>>, <<>>, <<>>, t) :
                 n \in (_MAX_PAGES_PER_CALL - 1)..(_MAX_PAGES_PER_CALL + 2), t \in BOOLEAN}

TopicCalls ==
    {Call(d, <<>>, <<>>, c, <<>>, t) :
        d \in NoTocDocs \cup {OvarianDoc, NansoamDoc, CervixFirstDoc, UterineDoc},
        c \in TopicQueries, t \in BOOLEAN}

SectionCalls ==
    {Call(d, <<>>, s, <<>>, <<>>, t) :
        d \in {SectionDoc, NansoamDoc, Uniform(TextPage(<<"a">>), 2)},
        s \in SectionQueries, t \in BOOLEAN}

SearchCalls ==
    {Call(d, <<>>, <<>>, <<>>, k, t) :
        d \in DocsUpTo({TextPage(x) : x \in SearchTexts}, MaxSearchPages),
        k \in SearchKeywords, t \in BOOLEAN}
        \cup {Call(PembrolizumabDoc, <<>>, <<>>, <<>>, Str_pembrolizumab, FALSE),
              Call(EveryPageDoc, <<>>, <<>>, <<>>, <<"B">>, FALSE),
              Call(LongTextDoc, <<>>, <<>>, <<>>, <<"a", "b">>, FALSE)}

Calls == RenderCalls \cup PagesCalls \cup TopicCalls \cup SectionCalls \cup SearchCalls

Init ==
    /\ pc = "call"
    /\ \E c \in Calls :
           /\ doc = c.doc
           /\ pages = c.pages /\ section = c.section /\ cancer_type = c.cancer_type
           /\ search = c.search /\ text_only = c.text_only
    /\ total_pages = 0
    /\ page_indices = <<>>
    /\ TocIdle /\ RenderIdle /\ VerifyIdle /\ OffsetIdle /\ HandlesIdle /\ CallersIdle
    /\ _toc_offset_cache = EmptyCache

\* the call returns blocks without entering the loop: doc.close() comes
\* before each of these returns, and the helpers (_parse_toc, _search_pdf,
\* _calc_toc_offset, _verify_page_with_fuzzy, the section scan) close the
\* handle they open before they return
Return(blocks) ==
    /\ results' = blocks
    /\ pc' = "returned"
    /\ handles' = {}
    /\ UNCHANGED <<truncated, image_page_count, text_buffer, cursor>>

IsTruncatedMutant(indices) == Len(indices) >= _MAX_PAGES_PER_CALL

\* truncated = len(page_indices) > _MAX_PAGES_PER_CALL
IsTruncated(indices) == Len(indices) > _MAX_PAGES_PER_CALL

\* the page limit, the first block, and the entry into the loop
Begin(indices, label) ==
    LET limited == Slice(indices, 0, _MAX_PAGES_PER_CALL)
    IN  /\ range_label' = label
        /\ truncated' = IsTruncated(indices)
        /\ page_indices' = limited
        /\ image_page_count' = 0
        /\ results' = <<MetaBlock(doc.n, limited, IsTruncated(indices), label, text_only)>>
        /\ text_buffer' = <<>>
        /\ cursor' = 0
        /\ pc' = "loop"
        /\ handles' = {"doc", "pdf_plumber"}

Search ==
    /\ pc = "call" /\ search # <<>>
    /\ total_pages' = doc.n
    /\ Return(_search_pdf(doc, search, doc.n))
    /\ UNCHANGED <<doc, queryVars, page_indices, tocVars, range_label, verifyVars, toc_offset,
                   _toc_offset_cache,
                   callers>>

\* the three branches that start with toc, ... = _parse_toc(filepath)
Open ==
    /\ pc = "call" /\ search = <<>>
    /\ cancer_type # <<>> \/ section # <<>> \/ pages = <<>>
    /\ total_pages' = doc.n
    /\ pc' = "toc_call"
    /\ handles' = {"doc"}
    /\ UNCHANGED <<doc, queryVars, page_indices, tocVars, renderVars, verifyVars, toc_offset,
                   _toc_offset_cache,
                   callers>>

ResolveTopic ==
    /\ pc = "toc_done" /\ cancer_type # <<>>
    /\ \E r \in {_find_cancer_pages(toc, cancer_type, total_pages, doc, toc_page_idx,
                                    _toc_offset_cache)} :
           /\ _toc_offset_cache' = r.cache
           /\ IF r.indices = <<>>
              THEN /\ page_indices' = r.indices
                   /\ range_label' = <<>>
                   /\ Return(TopicNotFound(cancer_type, toc))
              ELSE Begin(r.indices, [kind |-> "cancer_type", name |-> r.name])
    /\ UNCHANGED <<doc, queryVars, total_pages, tocVars, verifyVars, toc_offset,
                   callers>>

ResolveSection ==
    /\ pc = "toc_done" /\ cancer_type = <<>> /\ section # <<>>
    /\ \E r \in {_find_section_pages_from_toc(toc, section, doc, total_pages,
                                              toc_page_idx, _toc_offset_cache)} :
           /\ _toc_offset_cache' = r.cache
           /\ IF r.indices = <<>>
              THEN /\ page_indices' = r.indices
                   /\ range_label' = <<>>
                   /\ Return(SectionNotFound(section, total_pages))
              ELSE Begin(r.indices, [kind |-> "section", name |-> section])
    /\ UNCHANGED <<doc, queryVars, total_pages, tocVars, verifyVars, toc_offset,
                   callers>>

ResolvePages ==
    /\ pc = "call" /\ search = <<>> /\ cancer_type = <<>> /\ section = <<>>
    /\ pages # <<>>
    /\ total_pages' = doc.n
    /\ \E r \in {_parse_page_range(pages, doc.n)} :
           IF r.raised
           THEN \* the ValueError leaves read_pdf with doc open
                /\ pc' = "raised"
                /\ handles' = {"doc"}
                /\ UNCHANGED <<page_indices, renderVars>>
           ELSE Begin(r.list, <<>>)
    /\ UNCHANGED <<doc, queryVars, tocVars, verifyVars, toc_offset, _toc_offset_cache,
                   callers>>

Default ==
    /\ pc = "toc_done" /\ cancer_type = <<>> /\ section = <<>>
    /\ IF toc # <<>>
       THEN /\ UNCHANGED <<page_indices, range_label>>
            /\ Return(_format_toc_response(toc, total_pages))
       ELSE Begin(RangeList(0, Min(total_pages, _MAX_PAGES_PER_CALL)), <<>>)
    /\ UNCHANGED <<doc, queryVars, total_pages, tocVars, verifyVars, toc_offset, _toc_offset_cache,
                   callers>>

RenderPage ==
    /\ pc = "loop" /\ cursor < Len(page_indices)
    /\ LET s == LoopBody(doc, page_indices[cursor + 1], text_only, results,
                         text_buffer, image_page_count)
       IN  /\ results' = s.results
           /\ text_buffer' = s.text_buffer
           /\ image_page_count' = s.image_page_count
    /\ cursor' = cursor + 1
    /\ UNCHANGED <<pc, doc, queryVars, total_pages, page_indices, tocVars, range_label,
                   truncated, verifyVars, toc_offset, _toc_offset_cache,
                   handles, callers>>

Finish ==
    /\ pc = "loop" /\ cursor = Len(page_indices)
    /\ results' = Finished(results, text_buffer, image_page_count)
    /\ pc' = "returned"
    /\ handles' = {}
    /\ UNCHANGED <<doc, queryVars, total_pages, page_indices, tocVars, range_label,
                   truncated, image_page_count, text_buffer, cursor, verifyVars, toc_offset,
                   _toc_offset_cache,
                   callers>>

Next ==
    \/ Search
    \/ Open
    \/ ParseToc
    \/ ResolveTopic
    \/ ResolveSection
    \/ ResolvePages
    \/ Default
    \/ RenderPage
    \/ Finish

Spec == Init /\ [][Next]_vars

(***************************************************************************)
(* _calc_toc_offset across calls: the file at the path is read, replaced   *)
(* by the update check, and read again                                     *)
(***************************************************************************)
MaxFooter == 3

\* 30 pages; the contents page is page index 25 and page index 26 carries
\* the printed footer f
FooterDoc(f) ==
    [n |-> 30,
     pg |-> (25 :> TextPage(ContentsOf(Str_Nansoam, Str_Jagunggyeongbuam)))
                @@ (26 :> TextPage(<<"x", "\n">> \o DecimalString(f)))]

\* 31 pages without a contents page; page index 30 starts with 일반원칙 and
\* carries the printed footer f
AnchorDoc(f) ==
    [n |-> 31, pg |-> (30 :> TextPage(AnchorGeneral \o <<"\n">> \o DecimalString(f)))]

\* no contents page and no footer
PlainDoc == [n |-> 3, pg |-> EmptyCache]

CacheDocs ==
    {FooterDoc(f) : f \in 1..MaxFooter} \cup {AnchorDoc(f) : f \in 1..MaxFooter}
        \cup {PlainDoc}

CacheInit ==
    /\ pc = "toc_call"
    /\ doc \in CacheDocs
    /\ total_pages = doc.n
    /\ page_indices = <<>>
    /\ QueryIdle /\ TocIdle /\ RenderIdle /\ VerifyIdle /\ OffsetIdle /\ HandlesIdle /\ CallersIdle
    /\ _toc_offset_cache = EmptyCache

\* offset = _calc_toc_offset(filepath, toc, toc_page_idx)
Calibrate ==
    /\ pc = "toc_done"
    /\ \E r \in {_calc_toc_offset(doc, toc_page_idx, _toc_offset_cache)} :
           /\ toc_offset' = r.offset
           /\ _toc_offset_cache' = r.cache
    /\ pc' = "calibrated"
    /\ UNCHANGED <<doc, queryVars, total_pages, page_indices, tocVars, renderVars,
                   verifyVars,
                   handles, callers>>

\* the next call reads the same file
CallAgain ==
    /\ pc = "calibrated"
    /\ pc' = "toc_call"
    /\ UNCHANGED <<doc, queryVars, total_pages, page_indices, tocVars, renderVars,
                   verifyVars, toc_offset, _toc_offset_cache,
                   handles, callers>>

\* shutil.copy2(str(final), str(latest)): the update check puts a new file
\* at the path; the process, and with it the cache, lives on
ReplaceFile ==
    /\ pc = "calibrated"
    /\ \E d \in CacheDocs \ {doc} : doc' = d /\ total_pages' = d.n
    /\ pc' = "toc_call"
    /\ UNCHANGED <<queryVars, page_indices, tocVars, renderVars, verifyVars, toc_offset,
                   _toc_offset_cache,
                   handles, callers>>

CacheNext == ParseToc \/ Calibrate \/ CallAgain \/ ReplaceFile

SpecCache == CacheInit /\ [][CacheNext]_vars

(***************************************************************************)
(* _calc_toc_offset called from several threads on one file: the lookup,   *)
(* the computation and the store are steps of their own, and nothing in    *)
(* the function keeps the steps of two calls apart                         *)
(***************************************************************************)
MaxCallers == 2

Callers == 1..MaxCallers

ConcurrentInit ==
    /\ pc = "toc_call"
    /\ doc \in CacheDocs
    /\ total_pages = doc.n
    /\ page_indices = <<>>
    /\ QueryIdle /\ TocIdle /\ RenderIdle /\ VerifyIdle /\ OffsetIdle /\ HandlesIdle
    /\ _toc_offset_cache = EmptyCache
    /\ callers = [c \in Callers |-> [at |-> "check", offset |-> 0]]

\* if cache_key in _toc_offset_cache: return _toc_offset_cache[cache_key]
CheckCache(c) ==
    /\ pc = "toc_done" /\ callers[c].at = "check"
    /\ callers' = [callers EXCEPT ![c] =
                      IF Filepath \in DOMAIN _toc_offset_cache
                      THEN [at |-> "done", offset |-> _toc_offset_cache[Filepath]]
                      ELSE [at |-> "compute", offset |-> 0]]
    /\ UNCHANGED <<pc, doc, queryVars, total_pages, page_indices, tocVars, renderVars,
                   verifyVars, toc_offset, _toc_offset_cache, handles>>

\* the two strategies and the fallback, on the file as it is
Compute(c) ==
    /\ pc = "toc_done" /\ callers[c].at = "compute"
    /\ callers' = [callers EXCEPT ![c] =
                      [at |-> "store", offset |-> ComputeOffset(doc, toc_page_idx)]]
    /\ UNCHANGED <<pc, doc, queryVars, total_pages, page_indices, tocVars, renderVars,
                   verifyVars, toc_offset, _toc_offset_cache, handles>>

\* _toc_offset_cache[cache_key] = offset; return offset
Store(c) ==
    /\ pc = "toc_done" /\ callers[c].at = "store"
    /\ _toc_offset_cache' = Stored(callers[c].offset).cache @@ _toc_offset_cache
    /\ callers' = [callers EXCEPT ![c].at = "done"]
    /\ UNCHANGED <<pc, doc, queryVars, total_pages, page_indices, tocVars, renderVars,
                   verifyVars, toc_offset, handles>>

SomeCheck == \E c \in Callers : CheckCache(c)

SomeCompute == \E c \in Callers : Compute(c)

SomeStore == \E c \in Callers : Store(c)

ConcurrentNext == ParseToc \/ SomeCheck \/ SomeCompute \/ SomeStore

SpecConcurrent == ConcurrentInit /\ [][ConcurrentNext]_vars

(***************************************************************************)
(* _parse_toc on files with several candidate pages                        *)
(***************************************************************************)
\* pages with both anchor phrases and 0, 1 or 2 items, and a page with one
\* anchor phrase and 3 items
CandidateKinds ==
    {BlankPage,
     TextPage(ContentsText(<<>>, <<>>, 1)),
     TextPage(ContentsText(<<3>>, <<>>, 1)),
     TextPage(ContentsText(<<3, 4>>, <<>>, 1)),
     TextPage(JoinLines(<<AnchorGeneral>> \o ItemLines(<<3, 4, 5>>, 1)))}

\* the page indices at the two edges of the candidate window
EdgeIndices == {24, 25, 26, 49, 50}

\* documents of n pages whose pages at the edge indices are drawn from the
\* kinds
CandidateDocs(n) ==
    {[n |-> n, pg |-> f] : f \in [{i \in EdgeIndices : i < n} -> CandidateKinds]}

SelectInit ==
    /\ pc = "toc_call"
    /\ doc \in CandidateDocs(25) \cup CandidateDocs(26) \cup CandidateDocs(51)
    /\ total_pages = doc.n
    /\ page_indices = <<>>
    /\ QueryIdle /\ TocIdle /\ RenderIdle /\ VerifyIdle /\ OffsetIdle /\ HandlesIdle /\ CallersIdle
    /\ _toc_offset_cache = EmptyCache

SelectNext == ParseToc

SpecSelect == SelectInit /\ [][SelectNext]_vars

(***************************************************************************)
(* _find_section_pages_by_scan on its own                                  *)
(***************************************************************************)
Str_Byeolpyo == <<"UBCC4", "UD45C">>

Str_Bupyo == <<"UBD80", "UD45C">>

\* the distances from the start page at which the later page is placed
LaterDistances == {1, 50, 51, 99, 100}

\* 일반원칙 heads page s; the page e, at one of the distances from s, heads
\* with 별표, with 부표 or with no keyword; the file ends with page e or 9
\* pages later
ScanDocsFrom(s) ==
    {[n |-> s + dist + extra,
      pg |-> (s :> TextPage(<<" ">> \o AnchorGeneral \o <<"\n", "a">>))
                 @@ (s + dist :> TextPage(head \o <<" ", "1">>))] :
        dist \in LaterDistances,
        head \in {Str_Byeolpyo, Str_Bupyo, <<"a">>}, extra \in {1, 10}}

ScanDocs == ScanDocsFrom(0) \cup ScanDocsFrom(3)

ScanInit ==
    /\ pc = "scan_call"
    /\ doc \in ScanDocs
    /\ total_pages = doc.n
    /\ page_indices = <<>>
    /\ section \in SectionQueries
    /\ pages = <<>> /\ cancer_type = <<>> /\ search = <<>> /\ text_only = FALSE
    /\ TocIdle /\ RenderIdle /\ VerifyIdle /\ OffsetIdle /\ HandlesIdle /\ CallersIdle
    /\ _toc_offset_cache = EmptyCache

Scan ==
    /\ pc = "scan_call"
    /\ page_indices' = _find_section_pages_by_scan(doc, section, total_pages)
    /\ pc' = "scan_done"
    /\ UNCHANGED <<doc, queryVars, total_pages, tocVars, renderVars, verifyVars,
                   toc_offset, _toc_offset_cache,
                   handles, callers>>

ScanNext == Scan

SpecScan == ScanInit /\ [][ScanNext]_vars

(***************************************************************************)
(* _calc_toc_offset on one file: the contents page is parsed, then the     *)
(* offset is computed or taken from the cache                              *)
(***************************************************************************)
\* a page that ends with the printed footer f
FooterPage(f) == TextPage(<<"x", "\n">> \o DecimalString(f) \o <<" ", "\n">>)

\* a page whose first line is a number and whose last line is not
WordPage == TextPage(<<"7", "\n", "x">>)

\* a page that starts with 일반원칙: with the footer f, and without a footer
AnchorPage(f) == TextPage(AnchorGeneral \o <<"\n">> \o DecimalString(f))

AnchorWordPage == TextPage(AnchorGeneral \o <<"\n", "x">>)

\* 일반원칙 at the top and the footer 5 after more than 500 characters
LongAnchorPage ==
    TextPage(AnchorGeneral \o <<"\n">> \o Filler(500) \o <<"\n", "5">>)

AfterContentsKinds == {BlankPage, WordPage, FooterPage(1), FooterPage(MaxFooter)}

\* 31 pages; the contents page is page index t, the four pages after it are
\* drawn from the kinds, and the fifth carries the footer 9
ContentsDocs(t) ==
    {[n |-> 31,
      pg |-> [i \in {j \in t..(t + 5) : j < 31} |->
                 IF i = t THEN TextPage(ContentsOf(Str_Nansoam, Str_Jagunggyeongbuam))
                 ELSE IF i = t + 5 THEN FooterPage(9)
                 ELSE f[i - t]]] : f \in [1..4 -> AfterContentsKinds]}

WindowKinds == {BlankPage, AnchorPage(MaxFooter), AnchorWordPage, FooterPage(1)}

\* 32 pages without a contents page; the pages 27, 30 and 31 are drawn from
\* the kinds
WindowDocs ==
    {[n |-> 32, pg |-> (27 :> f[1]) @@ (30 :> f[2]) @@ (31 :> f[3])] :
        f \in [1..3 -> WindowKinds]}
        \cup {[n |-> 32, pg |-> (30 :> LongAnchorPage)]}

CalibrateDocs == ContentsDocs(25) \cup ContentsDocs(27) \cup WindowDocs

\* a cache that holds, for the file, an offset no file of CalibrateDocs gives
OtherCache == (Filepath :> 0 - 50)

CalibrateInit ==
    /\ pc = "toc_call"
    /\ doc \in CalibrateDocs
    /\ total_pages = doc.n
    /\ page_indices = <<>>
    /\ QueryIdle /\ TocIdle /\ RenderIdle /\ VerifyIdle /\ OffsetIdle /\ HandlesIdle /\ CallersIdle
    /\ _toc_offset_cache \in {EmptyCache, OtherCache}

CalibrateNext == ParseToc \/ Calibrate

SpecCalibrate == CalibrateInit /\ [][CalibrateNext]_vars

(***************************************************************************)
(* _resolve(entry): the indices of one entry of the contents               *)
(***************************************************************************)
MaxIndexPages == 4

MaxSpan == 2

MaxOffset == 3

\* documents of 1..MaxIndexPages pages, each blank or headed by the name
IndexDocs == DocsUpTo({TextPage(<<>>), TextPage(FragmentA)}, MaxIndexPages) \ DocsOf({}, 0)

\* entries as _parse_toc leaves them: end_page is not before page; the name
\* has a usable part or none
IndexEntries ==
    {[num |-> <<"1">>, name |-> nm, page |-> p, end_page |-> p + span] :
        nm \in {FragmentA, <<"x">>}, p \in 1..MaxPrinted, span \in 0..MaxSpan}

\* the cache as earlier calls on the path may have left it: empty, or an
\* offset computed from a footer
IndexCaches ==
    {EmptyCache} \cup {(Filepath :> o) : o \in (0 - MaxOffset)..MaxOffset}

IndexInit ==
    /\ pc = "resolve_call"
    /\ doc \in IndexDocs
    /\ total_pages = doc.n
    /\ toc \in {<<e>> : e \in IndexEntries}
    /\ toc_page_idx = -1
    /\ page_indices = <<>>
    /\ QueryIdle /\ RenderIdle /\ VerifyIdle /\ OffsetIdle /\ HandlesIdle /\ CallersIdle
    /\ _toc_offset_cache \in IndexCaches

\* start, end = _toc_page_to_indices(...); list(range(start, end + 1))
ResolveEntry ==
    /\ pc = "resolve_call"
    /\ \E r \in {Resolve(toc[1], doc, total_pages, toc_page_idx, _toc_offset_cache)} :
           /\ page_indices' = r.indices
           /\ _toc_offset_cache' = r.cache
           /\ toc_offset' = r.cache[Filepath]
    /\ pc' = "resolve_done"
    /\ UNCHANGED <<doc, queryVars, total_pages, tocVars, renderVars, verifyVars,
                   handles, callers>>

IndexNext == ResolveEntry

SpecIndices == IndexInit /\ [][IndexNext]_vars

(***************************************************************************)
(* C1                                                                      *)
(***************************************************************************)
\* a well-formed item: a 1-based page "p", or a range "a-b" with 1 <= a <= b
ItemPages(item) ==
    LET t == Strip(item)
    IN  IF AllDigits(t) /\ DecimalValue(t) >= 1
        THEN [ok |-> TRUE, named |-> {DecimalValue(t)}]
        ELSE IF Contains(<<"-">>, t)
             THEN LET h == Split1(t, "-")
                      a == Strip(h[1])
                      b == Strip(h[2])
                  IN  IF /\ AllDigits(a) /\ AllDigits(b)
                         /\ 1 <= DecimalValue(a)
                         /\ DecimalValue(a) <= DecimalValue(b)
                      THEN [ok |-> TRUE,
                            named |-> DecimalValue(a)..DecimalValue(b)]
                      ELSE [ok |-> FALSE, named |-> {}]
             ELSE [ok |-> FALSE, named |-> {}]

WellFormed(s) ==
    \A i \in 1..Len(Split(s, ",")) : ItemPages(Split(s, ",")[i]).ok

NamedPages(s) ==
    UNION {ItemPages(Split(s, ",")[i]).named : i \in 1..Len(Split(s, ","))}

IsStrictlyAscending(s) == \A i \in 1..(Len(s) - 1) : s[i] < s[i + 1]

Str_5 == <<"5">>

Str_1_3_7_10 == <<"1", ",", "3", ",", "7", "-", "1", "0">>

\* C1: for a well-formed page expression the parser never raises and returns
\* the strictly ascending list whose elements are exactly the indices p-1,
\* p named by an item, that lie in 0..total-1; "5" gives [4] and "1,3,7-10"
\* gives [0,2,6,7,8,9] for a document of 10 pages or more.
C1_PageRangeExact ==
    (pc \in {"range_done", "range_raised"} /\ WellFormed(pages)) =>
        /\ pc = "range_done"
        /\ IsStrictlyAscending(page_indices)
        /\ SeqToSet(page_indices) =
               {i \in 0..(total_pages - 1) : (i + 1) \in NamedPages(pages)}
        /\ _parse_page_range(Str_5, total_pages + 5) = Returned(<<4>>)
        /\ _parse_page_range(Str_1_3_7_10, total_pages + 10)
               = Returned(<<0, 2, 6, 7, 8, 9>>)

\* two items, a range cut off by the document end and a page beyond it
C1_Witness ==
    /\ pc = "range_done"
    /\ WellFormed(pages)
    /\ Len(Split(pages, ",")) = 2
    /\ Contains(<<"-">>, pages)
    /\ 3 \in NamedPages(pages)
    /\ total_pages = 2
    /\ page_indices = <<0, 1>>

(***************************************************************************)
(* C2                                                                      *)
(***************************************************************************)
\* the items read from the contents page, in reading order
ItemsRead == RawTocEntries(doc, toc_page_idx)

\* C2: the entries returned by _parse_toc are strictly ascending by printed
\* page (so no printed page occurs twice), and each entry is the first item,
\* in reading order, that was read with its printed page.
C2_TocSortedFirstWins ==
    pc = "toc_done" =>
        LET read == ItemsRead
        IN  /\ \A i \in 1..(Len(toc) - 1) : toc[i].page < toc[i + 1].page
            /\ \A i \in 1..Len(toc) :
                   \E j \in 1..Len(read) :
                       /\ read[j].page = toc[i].page
                       /\ read[j].name = toc[i].name
                       /\ read[j].num = toc[i].num
                       /\ \A k \in 1..(j - 1) : read[k].page # toc[i].page

\* three items read, the first and the third on one printed page, after the
\* second in page order
C2_Witness ==
    /\ pc = "toc_done"
    /\ LET read == ItemsRead
       IN  /\ Len(read) = 3
           /\ read[1].page = read[3].page
           /\ read[2].page < read[1].page
           /\ Len(toc) = 2
           /\ toc[2].name = read[1].name

(***************************************************************************)
(* C3                                                                      *)
(***************************************************************************)
SectionsRead == RawSectionEntries(doc, toc_page_idx)

\* C3: every entry but the last ends on the page before the next entry's
\* start; the last entry ends on the page before the section with the
\* smallest printed page greater than its start, and on start + 10 only
\* when no section has a greater printed page.
C3_EndPageNextSection ==
    pc = "toc_done" =>
        LET sections == SectionsRead
            later == {sections[j].page : j \in 1..Len(sections)}
                         \ (0..(IF toc = <<>> THEN 0 ELSE toc[Len(toc)].page))
        IN  \A i \in 1..Len(toc) :
                IF i < Len(toc) THEN toc[i].end_page = toc[i + 1].page - 1
                ELSE IF later = {} THEN toc[i].end_page = toc[i].page + 10
                ELSE toc[i].end_page = (CHOOSE q \in later : \A x \in later : q <= x) - 1

(***************************************************************************)
(* C4                                                                      *)
(***************************************************************************)
\* the call has gone past the resolution of a topic query
TopicResolved ==
    /\ pc \in {"loop", "returned"}
    /\ search = <<>> /\ cancer_type # <<>>

\* C4: when _parse_toc returned no entry, a topic query resolves to no page
\* whatever the query string is, and read_pdf returns one text block, the
\* not-found message, whose list of available topics is the parse-failure
\* note: it has no name of the alias table in it.
C4_NoTocNoTopic ==
    (TopicResolved /\ toc = <<>>) =>
        /\ pc = "returned"
        /\ page_indices = <<>>
        /\ Len(results) = 1
        /\ results[1].type = "text"
        /\ results[1].kind = "cancer_not_found"
        /\ results[1].available = TocParseFailed
        /\ \A k \in 1..Len(_CANCER_ALIASES) :
               ~Contains(_CANCER_ALIASES[k].name, results[1].available)

\* the query ovarian on a document whose contents page was found (page
\* index 25) and has no line item with a page number
C4_Witness ==
    /\ pc = "returned"
    /\ cancer_type = Str_ovarian
    /\ doc.n = 30 /\ toc_page_idx = 25 /\ toc = <<>>
    /\ results[1].kind = "cancer_not_found"

(***************************************************************************)
(* C5                                                                      *)
(***************************************************************************)
\* C5: verifying the index a verification returned returns that index
\* again; and a verification returns the expected index itself when that
\* page is in the document and its leading text has a fragment of the name.
C5_VerifyIdempotent ==
    /\ pc = "verify_done" => verified[2] = verified[1]
    /\ (/\ pc \in {"verify_again", "verify_done"}
        /\ 0 <= expected_idx /\ expected_idx < total_pages
        /\ LeadingTextHas(doc, expected_idx, NameParts(cancer_name)))
           => verified[1] = expected_idx

\* the first verification moved the index two pages back, to a page that has
\* a neighbour with a fragment too
C5_Witness ==
    /\ pc = "verify_done"
    /\ verified[1] = expected_idx - 2
    /\ verified[1] >= 1
    /\ LeadingTextHas(doc, verified[1] - 1, NameParts(cancer_name))

(***************************************************************************)
(* C6                                                                      *)
(***************************************************************************)
\* the image blocks of a block list, as positions
ImagePositions(blocks) == {k \in 1..Len(blocks) : blocks[k].type = "image"}

\* the pages of the document that have a table and can be rendered
RenderablePages(d) ==
    {i \in 0..(d.n - 1) : HasTables(PageAt(d, i)) /\ PageAt(d, i).render = "ok"}

\* C6: in every state of the loop and in the result returned, results holds
\* at most _MAX_IMAGE_PAGES image blocks, as many as image_page_count counts.
C6_ImageBudget ==
    /\ Cardinality(ImagePositions(results)) <= _MAX_IMAGE_PAGES
    /\ pc \in {"loop", "returned"} =>
           Cardinality(ImagePositions(results)) = image_page_count

\* the loop has taken a sixth page with a table that can be rendered
C6_Witness ==
    /\ pc = "loop"
    /\ ~text_only
    /\ Cardinality(ImagePositions(results)) = _MAX_IMAGE_PAGES
    /\ Cardinality({k \in 1..cursor : page_indices[k] \in RenderablePages(doc)})
           > _MAX_IMAGE_PAGES

(***************************************************************************)
(* C7                                                                      *)
(***************************************************************************)
\* a call that renders all the pages of a ten-page document, a table on
\* each, none failing to render
TenTablePagesCall ==
    /\ doc.n = 10
    /\ RenderablePages(doc) = 0..9
    /\ ~text_only
    /\ search = <<>> /\ cancer_type = <<>> /\ section = <<>>
    /\ pages \in {<<>>, <<"1", "-", "1", "0">>}

\* the pages of the image blocks, in the order of the blocks
ImagePages(blocks) ==
    LET at == ImagePositions(blocks)
    IN  [k \in 1..Cardinality(at) |-> blocks[Nth(at, k)].data]

\* C7: the result of that call has exactly five image blocks, those of the
\* first five pages, and its last block is the text block of the image limit.
C7_TenTablePages ==
    (pc = "returned" /\ TenTablePagesCall) =>
        /\ ImagePages(results) = <<0, 1, 2, 3, 4>>
        /\ results[Len(results)] = ImageLimitNotice
        /\ results[Len(results)].type = "text"

\* the call with pages = "1-10" has returned
C7_Witness ==
    /\ pc = "returned"
    /\ TenTablePagesCall
    /\ pages = <<"1", "-", "1", "0">>
    /\ page_indices = RangeList(0, 10)
    /\ Len(results) > 1

(***************************************************************************)
(* C8                                                                      *)
(***************************************************************************)
\* C8: with the entries Ovarian cancer (printed page 64) and Cervical cancer
\* (printed page 68) and the offset 4, the query ovarian resolves to the
\* pages 67..70.
C8_OvarianResolves ==
    (TopicResolved /\ doc = OvarianDoc /\ cancer_type = Str_ovarian) =>
        page_indices = <<67, 68, 69, 70>>

(***************************************************************************)
(* C9                                                                      *)
(***************************************************************************)
\* keyword occurs at offset o of text, the case of the letters left aside
OccursAt(keyword, text, o) ==
    /\ o + Len(keyword) <= Len(text)
    /\ \A k \in 1..Len(keyword) : LowerChar(text[o + k]) = LowerChar(keyword[k])

\* the zero-based pages whose text has the keyword
PagesWith(keyword) ==
    {i \in 0..(doc.n - 1) : \E o \in 0..Len(PageText(doc, i)) :
                                OccursAt(keyword, PageText(doc, i), o)}

\* the matches of the block returned
MatchesReturned ==
    IF results[1].kind = "search" THEN results[1].matches ELSE <<>>

\* one match per page with the keyword, in ascending page order, the first
\* _SEARCH_MAX_RESULTS of them
FirstPagesMatched(matches, hits) ==
    /\ Len(matches) = Min(Cardinality(hits), _SEARCH_MAX_RESULTS)
    /\ \A k \in 1..Len(matches) : matches[k].page = Nth(hits, k) + 1
    /\ Cardinality(hits) = 2 => Len(matches) = 2

\* C9 as stated: the matches are those of the first 20 pages with the
\* keyword, in ascending order, and the context of every match is non-empty.
C9_EveryContextNonEmpty ==
    (pc = "returned" /\ search # <<>>) =>
        /\ Len(results) = 1
        /\ FirstPagesMatched(MatchesReturned, PagesWith(search))
        /\ \A k \in 1..Len(MatchesReturned) : MatchesReturned[k].context # <<>>

\* C9, amended: the matches are those of the first 20 pages with the
\* keyword, in ascending order, and the context of every match is non-empty
\* when the keyword has a character that is not whitespace.
C9_ContextOfVisibleKeyword ==
    (pc = "returned" /\ search # <<>>) =>
        /\ Len(results) = 1
        /\ FirstPagesMatched(MatchesReturned, PagesWith(search))
        /\ Strip(search) # <<>> =>
               \A k \in 1..Len(MatchesReturned) : MatchesReturned[k].context # <<>>

\* pembrolizumab, on pages 12 and 140 of 150, in another case on page 12
C9_Witness ==
    /\ pc = "returned"
    /\ search = Str_pembrolizumab
    /\ doc.n = 150
    /\ PagesWith(search) = {11, 139}
    /\ Len(MatchesReturned) = 2
    /\ MatchesReturned[1].page = 12 /\ MatchesReturned[2].page = 140
    /\ MatchesReturned[1].context # <<>> /\ MatchesReturned[2].context # <<>>

(***************************************************************************)
(* C10                                                                     *)
(***************************************************************************)
\* C10: with text_only, results never holds an image block, the image
\* counter stays 0 and the text block of the image limit is never appended.
C10_TextOnlyNoImage ==
    text_only =>
        /\ ImagePositions(results) = {}
        /\ image_page_count = 0
        /\ \A k \in 1..Len(results) : results[k] # ImageLimitNotice

\* a text-only call has returned the text of more table pages than the
\* image limit
C10_Witness ==
    /\ pc = "returned"
    /\ text_only
    /\ Cardinality({k \in 1..Len(page_indices) : page_indices[k] \in RenderablePages(doc)})
           > _MAX_IMAGE_PAGES
    /\ Len(results) = 2

(***************************************************************************)
(* C11                                                                     *)
(***************************************************************************)
\* the branch of read_pdf that the arguments of the call select
QueryPath ==
    IF search # <<>> THEN "search"
    ELSE IF cancer_type # <<>> THEN "cancer_type"
    ELSE IF section # <<>> THEN "section"
    ELSE IF pages # <<>> THEN "pages"
    ELSE "default"

\* the path a first block names: that of its range label, none without one
PathNamed(block) == IF DOMAIN block.label = {} THEN "none" ELSE block.label.kind

\* the first block gives the page count of the document and the range of
\* the pages shown
MetaFirst ==
    /\ results # <<>>
    /\ results[1].type = "text" /\ results[1].kind = "meta"
    /\ results[1].total = doc.n
    /\ results[1].shown = _format_page_range(page_indices)
    /\ results[1].count = Len(page_indices)

\* the call went on to the loop over the pages instead of returning early
PagesShown ==
    CASE QueryPath = "search" -> FALSE
      [] QueryPath \in {"cancer_type", "section"} -> page_indices # <<>>
      [] QueryPath = "pages" -> TRUE
      [] OTHER -> toc = <<>>

\* C11 as stated: whatever the query, the result returned starts with a
\* block that gives the page count, the range shown and the path taken.
C11_MetaBlockOnEveryPath ==
    pc = "returned" => (MetaFirst /\ PathNamed(results[1]) = QueryPath)

\* C11, amended: a result that shows pages starts with the block that gives
\* the page count and the range shown, and that block names the path for a
\* topic or a section query only; every other result (keyword search, topic
\* or section not found, the listing of the contents) is one text block
\* that is not that block.
C11_MetaBlockWhenPagesShown ==
    pc = "returned" =>
        IF PagesShown
        THEN /\ MetaFirst
             /\ PathNamed(results[1]) =
                    (IF QueryPath \in {"cancer_type", "section"} THEN QueryPath
                     ELSE "none")
             /\ QueryPath = "section" => results[1].label.name = section
        ELSE /\ Len(results) = 1
             /\ results[1].type = "text"
             /\ results[1].kind \in {"search", "search_none", "cancer_not_found",
                                      "section_not_found", "toc"}

\* a topic query has been resolved and its pages returned after the block
C11_Witness ==
    /\ pc = "returned"
    /\ QueryPath = "cancer_type"
    /\ PagesShown
    /\ Len(results) > 1
    /\ PathNamed(results[1]) = "cancer_type"

(***************************************************************************)
(* C12                                                                     *)
(***************************************************************************)
\* the call has gone past the resolution of a section query
SectionResolved ==
    /\ pc \in {"loop", "returned", "raised"}
    /\ QueryPath = "section"

\* no entry of the contents and no page header has a keyword of the section
SectionUnmatched ==
    /\ \A k \in 1..Len(toc) : ~AnyIn(SectionKeywords(section), toc[k].name)
    /\ \A i \in 0..(doc.n - 1) : ~AnyIn(SectionKeywords(section), Header(doc, i))

\* the names of the entries, each followed by ", " but the last
RECURSIVE NamesListed(_, _)
NamesListed(entries, k) ==
    IF k > Len(entries) THEN <<>>
    ELSE entries[k].name \o (IF k < Len(entries) THEN <<",", " ">> ELSE <<>>)
             \o NamesListed(entries, k + 1)

\* C12: a topic query for which the cascade selects no entry, and a section
\* query whose keywords are in no entry name and in no page header, do not
\* raise: the result is one text block, without any page text or image,
\* that lists the names of the parsed entries (for a topic) or the names of
\* the fixed sections (for a section).
C12_UnmatchedQueryOneBlock ==
    /\ (pc \in {"loop", "returned", "raised"} /\ QueryPath = "cancer_type"
           /\ SelectEntry(toc, cancer_type) = 0) =>
            /\ pc = "returned"
            /\ Len(results) = 1
            /\ results[1].type = "text" /\ results[1].kind = "cancer_not_found"
            /\ toc # <<>> => results[1].available = NamesListed(toc, 1)
            /\ \A k \in 1..Len(toc) : Contains(toc[k].name, results[1].available)
            /\ DOMAIN results[1] = {"type", "kind", "cancer_type", "available"}
    /\ (SectionResolved /\ SectionUnmatched) =>
            /\ pc = "returned"
            /\ Len(results) = 1
            /\ results[1].type = "text" /\ results[1].kind = "section_not_found"
            /\ Len(results[1].available) = Len(PDF_SECTIONS)
            /\ \A k \in 1..Len(PDF_SECTIONS) :
                   results[1].available[k] = PDF_SECTIONS[k].name
            /\ DOMAIN results[1] = {"type", "kind", "section", "available", "total"}

\* a topic query that no entry of a parsed contents page matches has
\* returned
C12_Witness ==
    /\ pc = "returned"
    /\ QueryPath = "cancer_type"
    /\ Len(toc) = 2
    /\ SelectEntry(toc, cancer_type) = 0
    /\ results[1].available = NamesListed(toc, 1)

(***************************************************************************)
(* C13                                                                     *)
(***************************************************************************)
\* the entries whose name has the query, the case of the letters of both
\* left aside
MatchesIgnoringCase(entries, cancer) ==
    {k \in 1..Len(entries) : Contains(Strip(Lower(cancer)), Lower(entries[k].name))}

\* C13: a topic query that is in an entry name when the case of the letters
\* is left aside matches at the first stage: the call resolves to the pages
\* of the first such entry and names it in the first block.
C13_CaseInsensitiveMatch ==
    (TopicResolved /\ MatchesIgnoringCase(toc, cancer_type) # {}) =>
        /\ page_indices # <<>>
        /\ results[1].kind = "meta"
        /\ results[1].label.name =
               toc[Nth(MatchesIgnoringCase(toc, cancer_type), 1)].name

(***************************************************************************)
(* C14                                                                     *)
(***************************************************************************)
\* the index list the query resolves to, before the page limit
ResolvedIndices ==
    CASE QueryPath = "cancer_type" ->
             _find_cancer_pages(toc, cancer_type, total_pages, doc, toc_page_idx,
                                _toc_offset_cache).indices
      [] QueryPath = "section" ->
             _find_section_pages_from_toc(toc, section, doc, total_pages, toc_page_idx,
                                          _toc_offset_cache).indices
      [] QueryPath = "pages" -> _parse_page_range(pages, doc.n).list
      [] OTHER -> RangeList(0, Min(doc.n, _MAX_PAGES_PER_CALL))

\* block shows page i: it is the image of the page, or a text with the
\* mark of the page
ShowsPage(block, i) ==
    \/ block.type = "image" /\ block.data = i
    \/ /\ block.type = "text" /\ "text" \in DOMAIN block
       /\ Contains(PageMark(i + 1) \o <<" ">>, block.text)

\* the pages that the blocks show
PagesRendered(blocks) ==
    {i \in 0..(doc.n - 1) : \E k \in 1..Len(blocks) : ShowsPage(blocks[k], i)}

\* C14: a call that shows pages shows at most _MAX_PAGES_PER_CALL of them:
\* the pages of the result are those of the first 50 indices of the list
\* the query resolved to, all of them when the list has 50 or fewer, and
\* the first block reports the limit exactly when the list had more.
C14_PageLimit ==
    (pc = "returned" /\ PagesShown) =>
        /\ Len(page_indices) <= _MAX_PAGES_PER_CALL
        /\ page_indices = Slice(ResolvedIndices, 0, _MAX_PAGES_PER_CALL)
        /\ PagesRendered(results) = SeqToSet(page_indices)
        /\ results[1].truncated = (Len(ResolvedIndices) > _MAX_PAGES_PER_CALL)
        /\ truncated = results[1].truncated
        /\ Len(ResolvedIndices) <= _MAX_PAGES_PER_CALL => page_indices = ResolvedIndices

\* pages = "1-52" on a document of 52 pages: the pages 1..50 are shown and
\* the limit is reported
C14_Witness ==
    /\ pc = "returned"
    /\ QueryPath = "pages"
    /\ doc.n = _MAX_PAGES_PER_CALL + 2
    /\ Len(ResolvedIndices) = _MAX_PAGES_PER_CALL + 2
    /\ page_indices = RangeList(0, _MAX_PAGES_PER_CALL)
    /\ PagesRendered(results) = 0..(_MAX_PAGES_PER_CALL - 1)
    /\ results[1].truncated

(***************************************************************************)
(* C15                                                                     *)
(***************************************************************************)
\* the page the loop takes next
NextPage == PageAt(doc, page_indices[cursor + 1])

\* the loop is about to rasterize a page with a table, and that raises
RasterizeFails ==
    /\ pc = "loop" /\ cursor < Len(page_indices)
    /\ ~text_only
    /\ HasTables(NextPage) /\ image_page_count < _MAX_IMAGE_PAGES
    /\ NextPage.render = "fail"

\* some page of the call has a table and cannot be rasterized
HasUnrenderable ==
    \E k \in 1..Len(page_indices) :
        HasTables(PageAt(doc, page_indices[k])) /\ PageAt(doc, page_indices[k]).render = "fail"

\* C15: when rasterizing a page with a table raises, the loop goes on to
\* the next page: no image block is added, the image counter is unchanged,
\* and the extracted text of the page is what the text buffer then ends
\* with; the call returns, and shows every page of the range, those after
\* the failing page included.
C15_RenderFailureDegrades ==
    /\ [][RasterizeFails =>
             /\ pc' = "loop" /\ cursor' = cursor + 1
             /\ image_page_count' = image_page_count
             /\ ImagePositions(results') = ImagePositions(results)
             /\ text_buffer' # <<>>
             /\ text_buffer'[Len(text_buffer')] =
                    _extract_text_safe(NextPage, page_indices[cursor + 1] + 1)
             /\ Contains(Strip(NextPage.text), text_buffer'[Len(text_buffer')])]_vars
    /\ []((pc = "returned" /\ PagesShown /\ HasUnrenderable) =>
             PagesRendered(results) = SeqToSet(page_indices))

\* a call has returned the text of a page that could not be rasterized and,
\* after it, the image of a later page
C15_Witness ==
    /\ pc = "returned" /\ ~text_only
    /\ \E k \in 1..Len(results), j \in 1..Len(results) :
           /\ k < j
           /\ results[j].type = "image"
           /\ \E i \in 0..(results[j].data - 1) :
                  /\ PageAt(doc, i).render = "fail" /\ HasTables(PageAt(doc, i))
                  /\ results[k].type = "text"
                  /\ ShowsPage(results[k], i)
    /\ image_page_count = Cardinality(ImagePositions(results))
    /\ image_page_count < Len(page_indices)

(***************************************************************************)
(* C16                                                                     *)
(***************************************************************************)
\* C16: whatever calls and replacements of the file came before, the offset
\* a call of _calc_toc_offset returns is the offset computed without the
\* cache from the file now at the path, for the same toc_page_idx.
C16_CacheTransparent ==
    pc = "calibrated" => toc_offset = ComputeOffset(doc, toc_page_idx)

(***************************************************************************)
(* C17                                                                     *)
(***************************************************************************)
\* the query as the stages see it: cancer_type.lower().strip()
Query == Strip(Lower(cancer_type))

\* the entries whose name has the query as a substring
ExactEntries == {k \in 1..Len(toc) : Contains(Query, toc[k].name)}

\* the pages of entry k of the contents
EntryRange(k) ==
    Resolve(toc[k], doc, total_pages, toc_page_idx, _toc_offset_cache).indices

\* C17: the exact-substring stage comes before the alias table: when the
\* name of some entry has the query as a substring, the call resolves to
\* the first such entry and to its range, also when the alias table would
\* select another entry.
C17_ExactStageFirst ==
    (TopicResolved /\ ExactEntries # {}) =>
        /\ page_indices # <<>>
        /\ results[1].kind = "meta"
        /\ results[1].label.name = toc[Nth(ExactEntries, 1)].name
        /\ page_indices = EntryRange(Nth(ExactEntries, 1))

\* the query is in the name of the first entry while the alias table leads
\* to the second one
C17_Witness ==
    /\ pc = "returned"
    /\ QueryPath = "cancer_type"
    /\ Len(toc) = 2
    /\ Nth(ExactEntries \cup {3}, 1) = 1
    /\ AliasStage(toc, Query, 1) = 2
    /\ results[1].label.name = toc[1].name
    /\ page_indices = EntryRange(1)

(***************************************************************************)
(* C18                                                                     *)
(***************************************************************************)
\* the entries whose name has a canonical name of the alias table that
\* matches the query
AliasEntries ==
    {k \in 1..Len(toc) :
        \E a \in 1..Len(_CANCER_ALIASES) :
            /\ AliasApplies(Query, _CANCER_ALIASES[a])
            /\ Contains(_CANCER_ALIASES[a].name, toc[k].name)}

\* C18: the entry selected is the first entry, in the order of the printed
\* pages, that satisfies the test of the stage that selects: the first
\* entry whose name has the query, else the first entry whose name has any
\* canonical name that matches the query.
C18_FirstEntryOfStage ==
    TopicResolved =>
        /\ ExactEntries # {} =>
               /\ page_indices # <<>>
               /\ results[1].label.name = toc[Nth(ExactEntries, 1)].name
        /\ (ExactEntries = {} /\ AliasEntries # {}) =>
               /\ page_indices # <<>>
               /\ results[1].label.name = toc[Nth(AliasEntries, 1)].name

(***************************************************************************)
(* C19                                                                     *)
(***************************************************************************)
\* the entries whose lower-cased name has a character of the query
LooseEntries ==
    {k \in 1..Len(toc) :
        \E i \in 1..Len(Query) : Contains(<<Query[i]>>, Lower(toc[k].name))}

\* C19: a topic query that the first two stages match with no entry and
\* that has a character in common with the name of some entry resolves, by
\* the third stage, to the pages of such an entry.
C19_LooseStageResolves ==
    (TopicResolved /\ ExactEntries = {} /\ AliasStage(toc, Query, 1) = 0
        /\ LooseEntries # {}) =>
        /\ page_indices # <<>>
        /\ results[1].kind = "meta"
        /\ \E k \in LooseEntries : results[1].label.name = toc[k].name

(***************************************************************************)
(* C20                                                                     *)
(***************************************************************************)
\* the start index of the entry once verified, before the clamping
VerifiedStart ==
    _verify_page_with_fuzzy(doc, toc[1].page + toc_offset - 1, toc[1].name, total_pages)

\* entry["end_page"] - entry["page"]
PageSpan == toc[1].end_page - toc[1].page

\* C20: for every entry, offset and outcome of the verification, with at
\* least one page, the indices of the entry are a non-empty run of
\* consecutive ascending indices of the document, of no more than
\* end_page - page + 1 pages; it starts at the verified start clamped to
\* the document and ends at the verified start plus the span, clamped to
\* the last page and not below the start.
C20_IndicesInRange ==
    pc = "resolve_done" =>
        LET start == page_indices[1]
            end   == page_indices[Len(page_indices)]
        IN  /\ page_indices # <<>>
            /\ 0 <= start /\ start <= end /\ end <= total_pages - 1
            /\ start = Max(0, Min(VerifiedStart, total_pages - 1))
            /\ end = Max(start, Min(VerifiedStart + PageSpan, total_pages - 1))
            /\ \A k \in 1..Len(page_indices) : page_indices[k] = start + k - 1
            /\ Len(page_indices) <= PageSpan + 1

\* the verification moved the start, and the end was cut at the last page
C20_Witness ==
    /\ pc = "resolve_done"
    /\ VerifiedStart # toc[1].page + toc_offset - 1
    /\ VerifiedStart + PageSpan > total_pages - 1
    /\ Len(page_indices) >= 2
    /\ page_indices[Len(page_indices)] = total_pages - 1

(***************************************************************************)
(* C21                                                                     *)
(***************************************************************************)
\* the pieces of the name between its separators / and |
NamePieces(name) ==
    {Slice(name, ab[1], ab[2]) :
        ab \in {x \in (0..Len(name)) \X (0..Len(name)) :
                   /\ x[1] <= x[2]
                   /\ x[1] = 0 \/ name[x[1]] \in {"/", "|"}
                   /\ x[2] = Len(name) \/ name[x[2] + 1] \in {"/", "|"}
                   /\ \A k \in (x[1] + 1)..x[2] : name[k] \notin {"/", "|"}}}

\* the fragments: the pieces, stripped, of at least 2 characters
Fragments(name) == {Strip(piece) : piece \in {q \in NamePieces(name) : Len(Strip(q)) >= 2}}

\* page i is in the document and its first 500 characters have a fragment
HasFragment(i) ==
    /\ 0 <= i /\ i < total_pages
    /\ \E f \in Fragments(cancer_name) : Contains(f, Slice(PageText(doc, i), 0, 500))

\* the order in which the pages around e are probed
ProbeOrder(e) == <<e, e + 1, e - 1, e + 2, e - 2>>

\* C21: the index returned is the first of e, e+1, e-1, e+2, e-2 that is in
\* the document and whose first 500 characters have a fragment of the name;
\* it is e when there is no such index, and when the name has no fragment;
\* it is never further than 2 from e.
C21_FirstInProbeOrder ==
    pc \in {"verify_again", "verify_done"} =>
        LET hits == {k \in 1..5 : HasFragment(ProbeOrder(expected_idx)[k])}
        IN  /\ verified[1] =
                   (IF hits = {} THEN expected_idx
                    ELSE ProbeOrder(expected_idx)[Nth(hits, 1)])
            /\ Fragments(cancer_name) = {} => verified[1] = expected_idx
            /\ verified[1] - expected_idx \in (0 - 2)..2

\* the pages before and after e both have a fragment, e has none, and the
\* page after e is returned
C21_Witness ==
    /\ pc = "verify_again"
    /\ ~HasFragment(expected_idx)
    /\ HasFragment(expected_idx + 1) /\ HasFragment(expected_idx - 1)
    /\ verified[1] = expected_idx + 1

(***************************************************************************)
(* C22                                                                     *)
(***************************************************************************)
\* the text after the last line break of the stripped text, stripped
LastLineOf(text) ==
    LET t     == Strip(text)
        (* 0, or the position of the last line break *)
        break == Max(0, Nth({0} \cup {k \in 1..Len(t) : t[k] = "\n"},
                             1 + Cardinality({k \in 1..Len(t) : t[k] = "\n"})))
    IN  Strip(Slice(t, break, Len(t)))

\* the page has text and its last non-empty line is all digits
HasFooter(text) ==
    /\ LastLineOf(text) # <<>>
    /\ \A k \in 1..Len(LastLineOf(text)) : LastLineOf(text)[k] \in SeqToSet(Digits)

\* the pages after the contents page that the first strategy looks at and
\* that have a footer
FooterPages ==
    {i \in (toc_page_idx + 1)..Min(toc_page_idx + 4, doc.n - 1) :
        HasFooter(PageText(doc, i))}

\* index - footer + 1 of page i
OffsetAt(i) == i - DecimalValue(LastLineOf(PageText(doc, i))) + 1

\* the call computes the offset: the cache has nothing for the file
Computes == pc = "toc_done" /\ Filepath \notin DOMAIN _toc_offset_cache

\* C22: with the contents page known and nothing cached for the file, the
\* offset is index - footer + 1 of the first of the pages t+1..t+4 of the
\* document whose last non-empty line is all digits, the pages before it
\* that are blank or end otherwise being skipped; a footer on page t+5 is
\* not looked at by this strategy.
C22_FooterAfterContents ==
    [][(Computes /\ toc_page_idx >= 0) =>
          /\ FooterPages # {} => toc_offset' = OffsetAt(Nth(FooterPages, 1))
          /\ (FooterPages = {} /\ toc_page_idx + 5 < doc.n
                 /\ HasFooter(PageText(doc, toc_page_idx + 5))) =>
                 toc_offset' # OffsetAt(toc_page_idx + 5)]_vars

\* the pages t+1 and t+2 have no footer and the offset is that of page t+3
C22_Witness ==
    /\ pc = "calibrated"
    /\ toc_page_idx >= 0
    /\ Nth(FooterPages \cup {doc.n}, 1) = toc_page_idx + 3
    /\ PageText(doc, toc_page_idx + 1) # <<>>
    /\ toc_offset = OffsetAt(toc_page_idx + 3)
    /\ toc_offset # OtherCache[Filepath]

(***************************************************************************)
(* C23                                                                     *)
(***************************************************************************)
\* the pages of the window 25..49 that have 일반원칙 in their first 500
\* characters and an all-digit footer
AnchoredPages ==
    {i \in 25..Min(49, doc.n - 1) :
        /\ Contains(AnchorGeneral, Slice(PageText(doc, i), 0, 500))
        /\ HasFooter(PageText(doc, i))}

\* C23: when the first strategy finds nothing, a page of the window 25..49
\* with 일반원칙 near its top and an all-digit footer gives the offset
\* index - footer + 1, and the offset is 33 only when the window has no such
\* page.
C23_AnchorWindow ==
    [][(Computes /\ (toc_page_idx < 0 \/ FooterPages = {})) =>
          IF AnchoredPages = {} THEN toc_offset' = FallbackOffset
          ELSE \E i \in AnchoredPages : toc_offset' = OffsetAt(i)]_vars

(***************************************************************************)
(* C24                                                                     *)
(***************************************************************************)
\* the index the loop handles next
NextIndex == page_indices[cursor + 1]

\* the loop is about to handle a page of the document that has tables, with
\* the image limit already reached
DegradesNext ==
    /\ pc = "loop" /\ cursor < Len(page_indices)
    /\ ~text_only
    /\ NextIndex < doc.n
    /\ HasTables(PageAt(doc, NextIndex))
    /\ image_page_count >= _MAX_IMAGE_PAGES

\* C24: the text buffered for a page with tables that is handled after the
\* image limit was reached holds the degraded-table mark of that page,
\* whatever the text of the page.
C24_DegradedAlwaysMarked ==
    [][DegradesNext =>
          /\ text_buffer' # <<>>
          /\ Contains(DegradedMark(NextIndex + 1), text_buffer'[Len(text_buffer')])]_vars

(***************************************************************************)
(* C25                                                                     *)
(***************************************************************************)
\* position k of page_indices is a page of the document with tables
TableAt(k) ==
    /\ page_indices[k] < doc.n
    /\ HasTables(PageAt(doc, page_indices[k]))

\* the pages before position k that were returned as images
ImagesBefore(k) ==
    Min(_MAX_IMAGE_PAGES,
        Cardinality({j \in 1..(k - 1) :
                        TableAt(j) /\ PageAt(doc, page_indices[j]).render = "ok"}))

\* some page with tables was returned as text because the limit was reached
SomeDegraded ==
    /\ ~text_only
    /\ \E k \in 1..Len(page_indices) :
           TableAt(k) /\ ImagesBefore(k) >= _MAX_IMAGE_PAGES

\* C25: the call that went through the loop ends with the image-limit notice
\* exactly when some page with tables was returned as text because the limit
\* had been reached; with every such page returned as an image there is no
\* notice.
C25_NoticeIffDegraded ==
    (pc = "returned" /\ cursor = Len(page_indices) /\ page_indices # <<>>) =>
        (results[Len(results)] = ImageLimitNotice <=> SomeDegraded)

(***************************************************************************)
(* C26                                                                     *)
(***************************************************************************)
\* the positions of text at which a page label "--- p." or "--- 📊 p." starts
LabelStarts(text) ==
    {k \in 1..Len(text) :
        /\ text[k] = "-"
        /\ \/ Slice(text, k - 1, k + 5) = <<"-", "-", "-", " ", "p", ".">>
           \/ Slice(text, k - 1, k + 7) = <<"-", "-", "-", " ", "U1F4CA", " ", "p", ".">>}

\* the page number of the label that starts at position k
LabelAt(text, k) ==
    LET from   == IF text[k + 4] = "p" THEN k + 6 ELSE k + 8
        widest == Len(DecimalString(total_pages))
        stop   == Nth({j \in from..(from + widest) :
                          j > Len(text) \/ text[j] \notin SeqToSet(Digits)}, 1)
    IN  DecimalValue(Slice(text, from - 1, stop - 1))

\* the page numbers at the label positions starts, in the order of the text
LabelsAt(text, starts) ==
    [n \in 1..Cardinality(starts) |-> LabelAt(text, Nth(starts, n))]

\* the page numbers a block carries, in the order of the text
LabelsOf(block) ==
    IF block.type # "text" \/ "text" \notin DOMAIN block THEN <<>>
    ELSE LabelsAt(block.text, LabelStarts(block.text))

\* the page numbers of each block
BlockLabels(blocks) == [b \in 1..Len(blocks) |-> LabelsOf(blocks[b])]

RECURSIVE LabelsFrom(_, _)
\* the page numbers of the blocks from position b on
LabelsFrom(labels, b) ==
    IF b > Len(labels) THEN <<>> ELSE labels[b] \o LabelsFrom(labels, b + 1)

\* the page numbers of the indices of the list that are in the document
ExpectedLabels ==
    LET inside == {k \in 1..Len(page_indices) : page_indices[k] < doc.n}
    IN  [n \in 1..Cardinality(inside) |-> page_indices[Nth(inside, n)] + 1]

\* the page at position k goes to the text buffer whatever the image count
TextOnlyAt(k) ==
    /\ page_indices[k] < doc.n
    /\ (text_only \/ ~HasTables(PageAt(doc, page_indices[k])))

\* the call went through the loop and returned
Rendered == pc = "returned" /\ page_indices # <<>> /\ cursor = Len(page_indices)

\* C26: in the result of a call that rendered pages, the page labels of the
\* blocks after the metadata block are, in order, the pages of the index list
\* that are in the document, each once (so the text of earlier pages is
\* never placed after the image of a later page); the image of a page
\* directly follows its label; and two neighbouring pages without tables
\* are in one text block.
C26_OrderAndCompleteness ==
    Rendered =>
        \E labels \in {BlockLabels(results)} :
            /\ results[1].kind = "meta"
            /\ LabelsFrom(labels, 2) = ExpectedLabels
            /\ \A b \in 2..Len(results) :
                   results[b].type = "image" => labels[b - 1] = <<results[b].data + 1>>
            /\ \A k \in 1..(Len(page_indices) - 1) :
                   (TextOnlyAt(k) /\ TextOnlyAt(k + 1)) =>
                       \E b \in 2..Len(results) :
                           \E n \in 1..(Len(labels[b]) - 1) :
                               /\ labels[b][n] = page_indices[k] + 1
                               /\ labels[b][n + 1] = page_indices[k + 1] + 1

\* text pages, then an image, then text again: three blocks after the
\* metadata block and the image label
C26_Witness ==
    /\ Rendered
    /\ Len(page_indices) >= 4
    /\ \E b \in 3..(Len(results) - 1) :
           /\ results[b + 1].type = "image"
           /\ Len(LabelsOf(results[b - 1])) >= 2
           /\ b + 2 <= Len(results) /\ LabelsOf(results[b + 2]) # <<>>

(***************************************************************************)
(* C27                                                                     *)
(***************************************************************************)
\* the pages of the window 25..49 whose text has both anchor phrases
Qualifying ==
    {i \in 25..Min(49, doc.n - 1) :
        /\ Contains(AnchorGeneral, PageText(doc, i))
        /\ Contains(AnchorByCancer, PageText(doc, i))}

\* the number of line-item matches on page i
ItemCount(i) == Len(EntryStarts(PageText(doc, i), 0))

\* the lowest index among the pages of S with the highest count, -1 for
\* the empty set
Selected(S) ==
    IF S = {} THEN 0 - 1
    ELSE Nth({i \in S : \A j \in S : ItemCount(j) <= ItemCount(i)}, 1)

\* C27 as stated: the contents page is the page with the highest count among
\* the pages of the window 25..49 that have both anchor phrases, the lowest
\* index on a tie; without such a page the entry list is empty and the index
\* is -1.
C27_HighestCountSelected ==
    pc = "toc_done" =>
        /\ toc_page_idx = Selected(Qualifying)
        /\ Qualifying = {} => toc = <<>>

\* C27, amended: the pages considered are those of the window 25..49 that
\* have both anchor phrases and at least one line-item match; the contents
\* page is the one with the highest count, the lowest index on a tie, and
\* without such a page the entry list is empty and the index is -1.
C27_HighestPositiveCountSelected ==
    pc = "toc_done" =>
        /\ toc_page_idx = Selected({i \in Qualifying : ItemCount(i) >= 1})
        /\ {i \in Qualifying : ItemCount(i) >= 1} = {} => toc = <<>>

\* a tie of the pages 26 and 49 with two items, page 25 having one
C27_Witness ==
    /\ pc = "toc_done"
    /\ {25, 26, 49} \subseteq Qualifying
    /\ ItemCount(25) = 1 /\ ItemCount(26) = 2 /\ ItemCount(49) = 2
    /\ toc_page_idx = 26

(***************************************************************************)
(* C28                                                                     *)
(***************************************************************************)
\* the pages whose leading 500 characters hold one of the keywords
HeadedBy(keywords) == {i \in 0..(doc.n - 1) : AnyIn(keywords, Header(doc, i))}

\* the first page headed by a keyword of the section asked for
ScanFirst == Nth(HeadedBy(SectionKeywords(section)), 1)

\* the pages headed by a keyword of another section among the 100 pages
\* after the first page of the section
LaterSections ==
    {i \in HeadedBy(OtherKeywords(section, 1)) : ScanFirst < i /\ i <= ScanFirst + 100}

\* C28: the scan returns the empty list when no page is headed by a keyword
\* of the section; otherwise consecutive indices from the first such page,
\* ending, when one of the next 100 pages is headed by a keyword of another
\* section, on the page before the first of those.
C28_ScanRange ==
    pc = "scan_done" =>
        IF HeadedBy(SectionKeywords(section)) = {} THEN page_indices = <<>>
        ELSE /\ page_indices # <<>>
             /\ page_indices[1] = ScanFirst
             /\ \A k \in 1..Len(page_indices) : page_indices[k] = ScanFirst + k - 1
             /\ LaterSections # {} =>
                    page_indices[Len(page_indices)] = Nth(LaterSections, 1) - 1

(***************************************************************************)
(* C29                                                                     *)
(***************************************************************************)
\* the calls that are between their lookup and their store
InSequence == {c \in DOMAIN callers : callers[c].at \in {"compute", "store"}}

\* the calls that have returned
Done == {c \in DOMAIN callers : callers[c].at = "done"}

\* C29: concurrent calls for one unchanged file never have the
\* lookup-compute-store sequences of two calls under way at once; the calls
\* that have returned have returned the same offset; and once a call has
\* returned the cache holds exactly that offset for the file.
C29_CacheLocked ==
    /\ Cardinality(InSequence) <= 1
    /\ \A c1 \in Done, c2 \in Done : callers[c1].offset = callers[c2].offset
    /\ \A c \in Done :
           /\ Filepath \in DOMAIN _toc_offset_cache
           /\ _toc_offset_cache[Filepath] = callers[c].offset

(***************************************************************************)
(* C30                                                                     *)
(***************************************************************************)
\* C30: when a call of read_pdf has ended, by a return or by raising, no
\* PDF handle that it opened is open.
C30_HandlesClosed == pc \in {"returned", "raised"} => handles = {}

====
